---- MODULE Spec2Model ----
(***************************************************************************)
(* Schema-relationship graph engine of jschema.dev:                        *)
(*   src/src/utils/schemaRelationships.ts                                  *)
(*     resolveRelativePath, extractSchemaReferences (traverse),            *)
(*     extractEntityType, createSchemaGraph                                *)
(*   src/src/utils/graphUtils.ts                                           *)
(*     layoutGraph, schemaToGraph                                          *)
(*   src/src/App.tsx  (debounce and the handlers around the collection)    *)
(*   src/src/components/Editor.tsx  (handleEditorChange)                   *)
(*                                                                         *)
(* Strings are TLA+ strings handled character by character (Len, SubSeq,   *)
(* \o).  JavaScript indices are 0-based, TLA+ ones 1-based; every string   *)
(* primitive below states which one it speaks.                             *)
(***************************************************************************)
EXTENDS Integers, Sequences, FiniteSets, TLC

VARIABLES
    schema,            \* extractSchemaReferences: argument `schema`
    schemaName,        \* extractSchemaReferences: argument `schemaName`
    refs,              \* extractSchemaReferences: the returned array
    schemasMap,        \* Map<string, any>, as its entries in insertion order
    allRelationships,  \* SchemaRelationship[] handed to createSchemaGraph
    expandedNodes,     \* Set<string>
    nodes,             \* createSchemaGraph: returned nodes
    edges,             \* createSchemaGraph: returned edges
    threw,             \* TRUE iff the last call ended in an uncaught TypeError
    pc,                \* position in the call sequence
    inFlight,          \* layoutGraph calls not yet resolved, in call order
    layout,            \* layoutGraph: what elkInstance.layout last gave
    layoutedNodes,     \* App: the nodes last handed to setNodes
    layoutedEdges,     \* App: the edges last handed to setEdges
    drops,             \* handleDrop calls suspended at `await file.text()`
    ops,               \* number of handler calls so far
    timeoutId,         \* debounce: the pending timer and its arguments, if any
    editedContent,     \* Editor: the last edited text of each path
    copiedPath         \* handleCopyFile: argument `path` of the last call

vars == <<schema, schemaName, refs, schemasMap, allRelationships,
          expandedNodes, nodes, edges, threw, pc,
          inFlight, layout, layoutedNodes, layoutedEdges, drops, ops,
          timeoutId, editedContent, copiedPath>>

\* the state of the App component around the schema collection
appVars == <<inFlight, layout, layoutedNodes, layoutedEdges, drops, ops,
             timeoutId, editedContent, copiedPath>>

(***************************************************************************)
(* Bounds of the model.                                                    *)
(***************************************************************************)
MaxDepth == 1     \* wrapping levels put around a document shape
MaxDocs  == 3     \* documents in a collection
MaxRels  == 3     \* relationships in a hand-made relationship list
MaxOps   == 2     \* handler calls in a run of the App

(***************************************************************************)
(* JavaScript string primitives.                                           *)
(***************************************************************************)
Min(a, b) == IF a < b THEN a ELSE b
Max(a, b) == IF a > b THEN a ELSE b

\* String.prototype.startsWith
startsWith(s, p) == Len(p) <= Len(s) /\ SubSeq(s, 1, Len(p)) = p

\* String.prototype.endsWith
endsWith(s, p) == Len(p) <= Len(s) /\ SubSeq(s, Len(s) - Len(p) + 1, Len(s)) = p

\* String.prototype.includes
includes(s, p) == \E i \in 1..(Len(s) - Len(p) + 1) : SubSeq(s, i, i + Len(p) - 1) = p

\* String.prototype.indexOf, 0-based, -1 when absent (c is one character)
indexOf(s, c) ==
    IF includes(s, c)
    THEN (CHOOSE i \in 1..Len(s) :
              /\ SubSeq(s, i, i) = c
              /\ \A j \in 1..(i - 1) : SubSeq(s, j, j) # c) - 1
    ELSE -1

\* String.prototype.lastIndexOf, 0-based, -1 when absent (c is one character)
lastIndexOf(s, c) ==
    IF includes(s, c)
    THEN (CHOOSE i \in 1..Len(s) :
              /\ SubSeq(s, i, i) = c
              /\ \A j \in (i + 1)..Len(s) : SubSeq(s, j, j) # c) - 1
    ELSE -1

\* String.prototype.substring(start, end): 0-based, end exclusive, arguments
\* clamped to [0, length] and swapped when start > end
substring(s, start, end) ==
    LET a == Max(0, Min(start, Len(s)))
        b == Max(0, Min(end, Len(s)))
    IN SubSeq(s, Min(a, b) + 1, Max(a, b))

\* String.prototype.split on a one-character separator
RECURSIVE split(_, _)
split(s, sep) ==
    IF indexOf(s, sep) = -1
    THEN <<s>>
    ELSE <<substring(s, 0, indexOf(s, sep))>>
            \o split(substring(s, indexOf(s, sep) + 1, Len(s)), sep)

\* Array.prototype.filter(p => p) on an array of strings
RECURSIVE filterNonEmpty(_)
filterNonEmpty(parts) ==
    IF parts = <<>> THEN <<>>
    ELSE (IF Head(parts) = "" THEN <<>> ELSE <<Head(parts)>>)
            \o filterNonEmpty(Tail(parts))

\* Array.prototype.join
RECURSIVE join(_, _)
join(parts, sep) ==
    IF parts = <<>> THEN ""
    ELSE IF Len(parts) = 1 THEN parts[1]
    ELSE parts[1] \o sep \o join(Tail(parts), sep)

\* Array.prototype.pop: drops the last element, no-op on the empty array
pop(parts) == IF parts = <<>> THEN <<>> ELSE SubSeq(parts, 1, Len(parts) - 1)

\* obj.$ref.match(/^([^#]+)/): capture group 1, the longest prefix free of
\* '#'; "" stands for "no match" (the group cannot match the empty string)
matchBeforeHash(s) ==
    IF indexOf(s, "#") = -1 THEN s ELSE substring(s, 0, indexOf(s, "#"))

(***************************************************************************)
(* JSON values (`any`): a tagged variant.  t is the tag, s the text of a   *)
(* string, number or boolean, e the entries of an object or array in       *)
(* Object.entries order (array entries are keyed "0", "1", ...).           *)
(***************************************************************************)
JV(t, s, e) == [t |-> t, s |-> s, e |-> e]
Undefined   == JV("undefined", "", <<>>)
JNull       == JV("null", "", <<>>)
JTrue       == JV("bool", "true", <<>>)
JFalse      == JV("bool", "false", <<>>)
JNum(s)     == JV("num", s, <<>>)
JStr(s)     == JV("str", s, <<>>)
KV(k, v)    == [k |-> k, v |-> v]
JObj(e)     == JV("obj", "", e)
IndexKey(i) == <<"0", "1", "2", "3", "4", "5", "6", "7", "8", "9">>[i]
JArr(items) == JV("arr", "", [i \in 1..Len(items) |-> KV(IndexKey(i), items[i])])

\* JavaScript truthiness
Truthy(v) ==
    ~ \/ v.t \in {"undefined", "null"}
      \/ v = JFalse
      \/ v.t = "num" /\ v.s = "0"
      \/ v.t = "str" /\ v.s = ""

\* typeof v === 'object'  (true of null and of arrays)
TypeofObject(v) == v.t \in {"null", "arr", "obj"}

\* property read on null or undefined raises a TypeError
ReadThrows(v) == v.t \in {"null", "undefined"}

\* obj[key] of a value that is not null/undefined
Get(obj, key) ==
    IF \E i \in 1..Len(obj.e) : obj.e[i].k = key
    THEN obj.e[CHOOSE i \in 1..Len(obj.e) : obj.e[i].k = key].v
    ELSE Undefined

\* Object.entries(obj): own enumerable entries; a string exposes its
\* characters under index keys, other primitives expose nothing
Entries(obj) ==
    IF obj.t = "str"
    THEN [i \in 1..Len(obj.s) |-> KV(IndexKey(i), JStr(SubSeq(obj.s, i, i)))]
    ELSE obj.e

(***************************************************************************)
(* resolveRelativePath (schemaRelationships.ts 11-27)                      *)
(***************************************************************************)
\* the for loop of lines 18-24
\* variant: '..' is skipped instead of popping
RECURSIVE applyPartsNoPop(_, _)
applyPartsNoPop(resultParts, relParts) ==
    IF relParts = <<>> THEN resultParts
    ELSE LET part == Head(relParts) IN
         applyPartsNoPop(IF part # "." /\ part # ".." THEN Append(resultParts, part)
                         ELSE resultParts,
                         Tail(relParts))

RECURSIVE applyParts(_, _)
applyParts(resultParts, relParts) ==
    IF relParts = <<>> THEN resultParts
    ELSE LET part == Head(relParts) IN
         applyParts(IF part = ".." THEN pop(resultParts)
                    ELSE IF part # "." THEN Append(resultParts, part)
                    ELSE resultParts,
                    Tail(relParts))

\* basePath.substring(0, basePath.lastIndexOf('/'))
dirOf(basePath) == substring(basePath, 0, lastIndexOf(basePath, "/"))

resolveRelativePath(basePath, relativePath) ==
    LET baseDir   == dirOf(basePath)
        baseParts == filterNonEmpty(split(baseDir, "/"))
        relParts  == filterNonEmpty(split(relativePath, "/"))
    IN join(applyParts(baseParts, relParts), "/")

(***************************************************************************)
(* extractSchemaReferences (schemaRelationships.ts 29-70)                  *)
(***************************************************************************)
\* variant: a bare file name is not given the directory of the document
resolveRefPathBareAsIs(name, refPath) ==
    IF startsWith(refPath, "../") \/ startsWith(refPath, "./")
    THEN resolveRelativePath(name, refPath)
    ELSE refPath

\* variant: every non-relative ref is given the directory of the document
resolveRefPathAlwaysSibling(name, refPath) ==
    IF startsWith(refPath, "../") \/ startsWith(refPath, "./")
    THEN resolveRelativePath(name, refPath)
    ELSE (IF dirOf(name) # "" THEN dirOf(name) \o "/" \o refPath ELSE refPath)

\* lines 37-44: the target path of a cross-file ref
resolveRefPath(name, refPath) ==
    IF startsWith(refPath, "../") \/ startsWith(refPath, "./")
    THEN resolveRelativePath(name, refPath)
    ELSE IF ~includes(refPath, "/")
    THEN (IF dirOf(name) # "" THEN dirOf(name) \o "/" \o refPath ELSE refPath)
    ELSE refPath

\* variant: the ".json" test is missing
isCrossFileRefAnySuffix(ref) ==
    /\ Truthy(ref) /\ ref.t = "str"
    /\ matchBeforeHash(ref.s) # ""

\* line 36: the part before '#' names a cross-file reference
isCrossFileRef(ref) ==
    /\ Truthy(ref) /\ ref.t = "str"
    /\ matchBeforeHash(ref.s) # ""
    /\ endsWith(matchBeforeHash(ref.s), ".json")

\* variant: the array flag is ignored
relationTypeAlwaysOne(parentIsArray) == "one-to-one"

\* line 46
relationType(parentIsArray) == IF parentIsArray THEN "one-to-many" ELSE "one-to-one"

\* lines 34-56: the relationship pushed for the node itself, if any
ownReference(obj, name, propertyName, parentIsArray) ==
    IF isCrossFileRef(Get(obj, "$ref"))
    THEN << [from         |-> name,
             to           |-> resolveRefPath(name, matchBeforeHash(Get(obj, "$ref").s)),
             refPath      |-> Get(obj, "$ref").s,
             type         |-> relationType(parentIsArray),
             propertyName |-> propertyName] >>
    ELSE <<>>

\* variant: the null test is missing (typeof null === 'object')
isTraversedWithoutNullTest(obj) == TypeofObject(obj)

\* line 33, negated: the node is traversed
isTraversed(obj) == Truthy(obj) /\ TypeofObject(obj)

\* a variant of hasArrayItems that does not look at the type
hasArrayItemsAnyType(obj) == Truthy(Get(obj, "items"))

\* line 57
hasArrayItems(obj) == Get(obj, "type") = JStr("array") /\ Truthy(Get(obj, "items"))

\* line 62
isChildTraversed(key, value) == TypeofObject(value) /\ value.t # "null" /\ key # "items"

\* outcome of a call: the relationships pushed, or an uncaught TypeError
Returned(rs) == [refs |-> rs, threw |-> FALSE]
Thrown       == [refs |-> <<>>, threw |-> TRUE]
Then(a, b)   == IF a.threw \/ b.threw THEN Thrown ELSE Returned(a.refs \o b.refs)

RECURSIVE traverse(_, _, _, _, _)
RECURSIVE traverseEntries(_, _, _)

\* lines 32-66; name is the schemaName captured by the closure
traverse(obj, name, path, propertyName, parentIsArray) ==
    IF ~isTraversed(obj) THEN Returned(<<>>)
    ELSE IF ReadThrows(obj) THEN Thrown
    ELSE Then(Returned(ownReference(obj, name, propertyName, parentIsArray)),
         Then(IF hasArrayItems(obj)
              THEN traverse(Get(obj, "items"), name, path, propertyName, TRUE)
              ELSE Returned(<<>>),
              traverseEntries(Entries(obj), name, path)))

\* lines 61-65: Object.entries(obj).forEach
traverseEntries(entries, name, path) ==
    IF entries = <<>> THEN Returned(<<>>)
    ELSE Then(IF isChildTraversed(Head(entries).k, Head(entries).v)
              THEN traverse(Head(entries).v, name, path, Head(entries).k, FALSE)
              ELSE Returned(<<>>),
              traverseEntries(Tail(entries), name, path))

\* lines 29-31, 68-69
extractSchemaReferences(doc, name) == traverse(doc, name, "", "", FALSE)

(***************************************************************************)
(* Inputs of the extraction: document shapes around one $ref string.       *)
(***************************************************************************)
Holder(ref) == JObj(<<KV("$ref", JStr(ref))>>)
Properties(entries) == JObj(<<KV("properties", JObj(entries))>>)
ArrayOf(itemSchema) == JObj(<<KV("type", JStr("array")), KV("items", itemSchema)>>)

PlainProperty(key, ref) == Properties(<<KV(key, Holder(ref))>>)
ArrayProperty(key, ref) == Properties(<<KV(key, ArrayOf(Holder(ref)))>>)
BothProperties(ref) ==
    Properties(<<KV("p", Holder(ref)), KV("list", ArrayOf(Holder(ref)))>>)
NestedInItems(ref) == ArrayOf(PlainProperty("p", ref))
TupleItems(ref) == ArrayOf(JArr(<<Holder(ref)>>))
ItemsWithoutType(ref) == JObj(<<KV("items", Holder(ref))>>)
AllOf(ref) == JObj(<<KV("allOf", JArr(<<Holder(ref), Holder("b.json")>>))>>)
Definitions(ref) == JObj(<<KV("definitions", JObj(<<KV("D", Holder(ref))>>))>>)
NonStringRef(ref) == Properties(<<KV("$ref", Holder(ref))>>)

RefPool ==
    { "a.json", "./a.json", "../a.json", "../../a.json", "./x/.././a.json",
      "../address/address.schema.json", "role.schema.json", "x/a.json",
      "a.json#/definitions/X", "#/definitions/X", "a.txt", "" }

KeyPool == { "p", "items" }

ExtractPaths == { "a.json", "v1/b.json", "v1/user/user.schema.json", "/r.json" }

NonObjectDocs == { JNull, JTrue, JFalse, JNum("0"), JNum("5"), JStr(""), JStr("a.json") }

ShapeDocs ==
    UNION { { Holder(ref), BothProperties(ref), NestedInItems(ref), TupleItems(ref),
              ItemsWithoutType(ref), AllOf(ref), Definitions(ref), NonStringRef(ref) }
            \cup { PlainProperty(k, ref) : k \in KeyPool }
            \cup { ArrayProperty(k, ref) : k \in KeyPool }
          : ref \in RefPool }

\* a document put under properties.w
Wrap(doc) == Properties(<<KV("w", doc)>>)

RECURSIVE WrapTimes(_, _)
WrapTimes(doc, n) == IF n = 0 THEN doc ELSE Wrap(WrapTimes(doc, n - 1))

ExtractDocs ==
    NonObjectDocs \cup { WrapTimes(d, n) : d \in ShapeDocs \cup {JNull}, n \in 0..MaxDepth }

(***************************************************************************)
(* SpecExtract: one call extractSchemaReferences(schema, schemaName).      *)
(***************************************************************************)
\* the App as constructed (App.tsx 49-59)
NoApp ==
    /\ inFlight = <<>>
    /\ layout = [state |-> "none", children |-> <<>>]
    /\ layoutedNodes = <<>>
    /\ layoutedEdges = <<>>
    /\ drops = <<>>
    /\ ops = 0
    /\ timeoutId = <<>>
    /\ editedContent = <<>>
    /\ copiedPath = ""

NoGraph ==
    /\ schemasMap = <<>>
    /\ allRelationships = <<>>
    /\ expandedNodes = {}
    /\ nodes = <<>>
    /\ edges = <<>>
    /\ NoApp

InitExtract ==
    /\ schema \in ExtractDocs
    /\ schemaName \in ExtractPaths
    /\ refs = <<>>
    /\ threw = FALSE
    /\ NoGraph
    /\ pc = "call_extract"

ExtractOne ==
    /\ pc = "call_extract"
    /\ refs' = extractSchemaReferences(schema, schemaName).refs
    /\ threw' = extractSchemaReferences(schema, schemaName).threw
    /\ pc' = "extract_done"
    /\ UNCHANGED <<schema, schemaName, schemasMap, allRelationships,
                   expandedNodes, nodes, edges>>
    /\ UNCHANGED appVars

NextExtract == ExtractOne

SpecExtract == InitExtract /\ [][NextExtract]_vars

(***************************************************************************)
(* extractEntityType (schemaRelationships.ts 72-85)                        *)
(***************************************************************************)
\* schemaPath.replace(/\.schema\.json$/, '')
stripSchemaJson(schemaPath) ==
    IF endsWith(schemaPath, ".schema.json")
    THEN substring(schemaPath, 0, Len(schemaPath) - Len(".schema.json"))
    ELSE schemaPath

\* variant: the version marker is not looked at
extractEntityTypeLastSegment(schemaPath) ==
    LET pathParts == split(stripSchemaJson(schemaPath), "/")
        filename  == pathParts[Len(pathParts)]
    IN IF filename # "" THEN filename ELSE "unknown"

extractEntityType(schemaPath) ==
    LET pathParts == split(stripSchemaJson(schemaPath), "/")
        filename  == pathParts[Len(pathParts)]
    IN IF Len(pathParts) >= 2 /\ pathParts[1] = "v1" /\ pathParts[2] # ""
       THEN pathParts[2]
       ELSE IF filename # "" THEN filename ELSE "unknown"

(***************************************************************************)
(* createSchemaGraph (schemaRelationships.ts 87-194)                       *)
(* schemas is the Map as a sequence of [name, schema] in insertion order.  *)
(***************************************************************************)
Entry(name, doc) == [name |-> name, schema |-> doc]

\* String(v), as a template literal converts a value
RECURSIVE stringOf(_)
RECURSIVE stringOfAll(_)
stringOf(v) ==
    IF v.t \in {"str", "num", "bool"} THEN v.s
    ELSE IF v.t = "arr" THEN join(stringOfAll(v.e), ",")
    ELSE IF v.t = "obj" THEN "[object Object]"
    ELSE v.t
stringOfAll(entries) ==
    IF entries = <<>> THEN <<>>
    ELSE <<IF ReadThrows(Head(entries).v) THEN "" ELSE stringOf(Head(entries).v)>>
            \o stringOfAll(Tail(entries))

\* line 97: schema.title || schema.$id || name
titleOf(doc, name) ==
    IF Truthy(Get(doc, "title")) THEN Get(doc, "title")
    ELSE IF Truthy(Get(doc, "$id")) THEN Get(doc, "$id")
    ELSE JStr(name)

\* variant: a relationship targets a node when the node's path ends with `to`
isRootNodeBySuffix(relationships, name) ==
    ~ \E i \in 1..Len(relationships) : endsWith(name, relationships[i].to)

\* variant: `from` is tested instead of `to`
isRootNodeByFrom(relationships, name) ==
    ~ \E i \in 1..Len(relationships) : relationships[i].from = name

\* line 98
isRootNode(relationships, name) ==
    ~ \E i \in 1..Len(relationships) : relationships[i].to = name

\* lines 102-109: the "key: type" strings, or a TypeError on a null property
propertyThrows(doc) ==
    /\ Truthy(Get(doc, "properties"))
    /\ \E i \in 1..Len(Entries(Get(doc, "properties"))) :
           ReadThrows(Entries(Get(doc, "properties"))[i].v)

propertyLine(key, prop) ==
    key \o ": " \o (IF Truthy(Get(prop, "type")) THEN stringOf(Get(prop, "type")) ELSE "any")

propertiesOf(doc) ==
    IF Truthy(Get(doc, "properties"))
    THEN [i \in 1..Len(Entries(Get(doc, "properties"))) |->
              propertyLine(Entries(Get(doc, "properties"))[i].k,
                           Entries(Get(doc, "properties"))[i].v)]
    ELSE <<>>

\* lines 111-124
makeNode(name, doc, relationships, expanded) ==
    [ id         |-> name,
      type       |-> "schemaNode",
      label      |-> titleOf(doc, name),
      schemaName |-> name,
      isRoot     |-> isRootNode(relationships, name),
      isExpanded |-> name \in expanded,
      properties |-> propertiesOf(doc),
      schemaData |-> doc,
      entityType |-> extractEntityType(name),
      position   |-> [x |-> 0, y |-> 0] ]

\* lines 96-126: schemas.forEach; a TypeError for a null document (line 97)
\* or a null property (line 106)
nodesThrow(schemas) ==
    \E i \in 1..Len(schemas) :
        ReadThrows(schemas[i].schema) \/ propertyThrows(schemas[i].schema)

makeNodes(schemas, relationships, expanded) ==
    [i \in 1..Len(schemas) |->
        makeNode(schemas[i].name, schemas[i].schema, relationships, expanded)]

\* nodeIds, in insertion order
nodeIdsOf(schemas) == [i \in 1..Len(schemas) |-> schemas[i].name]

\* variant: every path passes for a node id
hasAnyPath(ids, id) == TRUE

\* nodeIds.has(id)
has(ids, id) == \E i \in 1..Len(ids) : ids[i] = id

\* line 134
groupKey(rel) == rel.from \o "-" \o rel.to

\* lines 132-139: relationshipGroups, in insertion order of the keys
RECURSIVE groupRelationships(_, _)
groupRelationships(groups, relationships) ==
    IF relationships = <<>> THEN groups
    ELSE LET rel == Head(relationships)
             key == groupKey(rel)
         IN groupRelationships(
                IF \E g \in 1..Len(groups) : groups[g].key = key
                THEN [g \in 1..Len(groups) |->
                         IF groups[g].key = key
                         THEN [key |-> key, rels |-> Append(groups[g].rels, rel)]
                         ELSE groups[g]]
                ELSE Append(groups, [key |-> key, rels |-> <<rel>>]),
                Tail(relationships))

\* variant: the first id ending with the path, an exact id not preferred
resolveNodeSuffixOnly(ids, path) ==
    IF \E i \in 1..Len(ids) : endsWith(ids[i], path)
    THEN ids[CHOOSE i \in 1..Len(ids) :
                 /\ endsWith(ids[i], path)
                 /\ \A j \in 1..(i - 1) : ~endsWith(ids[j], path)]
    ELSE path

\* lines 144-147: exact id, else the first id ending with the path, else
\* the path itself
resolveNode(ids, path) ==
    IF has(ids, path) THEN path
    ELSE IF \E i \in 1..Len(ids) : endsWith(ids[i], path)
    THEN ids[CHOOSE i \in 1..Len(ids) :
                 /\ endsWith(ids[i], path)
                 /\ \A j \in 1..(i - 1) : ~endsWith(ids[j], path)]
    ELSE path

\* variant: the one-to-many branch is missing
edgeTypeOfWithoutMany(rels) ==
    IF Len(rels) > 1 THEN "multiple" ELSE "one-to-one"

\* lines 156-168
edgeTypeOf(rels) ==
    IF Len(rels) > 1 THEN "multiple"
    ELSE IF rels[1].type = "one-to-many" THEN "one-to-many"
    ELSE "one-to-one"

edgeColorOf(edgeType) ==
    IF edgeType = "multiple" THEN "#12a525ff"
    ELSE IF edgeType = "one-to-many" THEN "#ff9800"
    ELSE "#61dafb"

\* strokeWidth in tenths: 2.5, 2, 1
edgeWidthOf(edgeType) ==
    IF edgeType = "multiple" THEN 25
    ELSE IF edgeType = "one-to-many" THEN 20
    ELSE 10

\* line 181: rels.map(r => r.propertyName).filter(Boolean)
RECURSIVE propertyNamesOf(_)
propertyNamesOf(rels) ==
    IF rels = <<>> THEN <<>>
    ELSE (IF Head(rels).propertyName = "" THEN <<>> ELSE <<Head(rels).propertyName>>)
            \o propertyNamesOf(Tail(rels))

\* lines 170-184
makeEdge(fromNode, toNode, rels) ==
    [ id            |-> fromNode \o "-" \o toNode,
      source        |-> fromNode,
      target        |-> toNode,
      animated      |-> TRUE,
      stroke        |-> edgeColorOf(edgeTypeOf(rels)),
      strokeWidth   |-> edgeWidthOf(edgeTypeOf(rels)),
      type          |-> edgeTypeOf(rels),
      propertyNames |-> propertyNamesOf(rels),
      count         |-> Len(rels) ]

\* lines 141-191: relationshipGroups.forEach; edgeIds is the set of the ids
\* of the edges pushed so far
RECURSIVE makeEdges(_, _, _)
makeEdges(acc, groups, ids) ==
    IF groups = <<>> THEN acc
    ELSE LET rels     == Head(groups).rels
             rel      == rels[1]
             fromNode == resolveNode(ids, rel.from)
             toNode   == resolveNode(ids, rel.to)
             edgeId   == fromNode \o "-" \o toNode
         IN makeEdges(
                IF /\ has(ids, fromNode) /\ has(ids, toNode)
                   /\ ~ \E e \in 1..Len(acc) : acc[e].id = edgeId
                THEN Append(acc, makeEdge(fromNode, toNode, rels))
                ELSE acc,
                Tail(groups), ids)

createSchemaGraph(schemas, relationships, expanded) ==
    IF nodesThrow(schemas)
    THEN [nodes |-> <<>>, edges |-> <<>>, threw |-> TRUE]
    ELSE [nodes |-> makeNodes(schemas, relationships, expanded),
          edges |-> makeEdges(<<>>, groupRelationships(<<>>, relationships),
                              nodeIdsOf(schemas)),
          threw |-> FALSE]

(***************************************************************************)
(* layoutGraph (graphUtils.ts 6-57).  The elk call is external: its        *)
(* outcome is a failure or a list of placed children.                      *)
(***************************************************************************)
NoLayout == [state |-> "none", children |-> <<>>]

\* elkInstance.layout rejects
ElkFailed == [state |-> "failed", children |-> <<>>]

\* elkInstance.layout resolves with these ids placed left to right
ElkPlaced(ids) ==
    [state    |-> "done",
     children |-> [i \in 1..Len(ids) |-> [id |-> ids[i], x |-> 280 * (i - 1), y |-> 12]]]

\* what the elk call can give for a list of nodes: a failure, every node
\* placed, or every node but the first placed
ElkOutcomes(ns) ==
    LET ids == [i \in 1..Len(ns) |-> ns[i].id]
    IN {ElkFailed, ElkPlaced(ids)}
          \cup (IF ids = <<>> THEN {} ELSE {ElkPlaced(Tail(ids))})

\* stands for NaN: no width the code computes is negative
NaN == 0 - 1

\* lines 19-30: label.length * 8 + 60 clamped to 200..500, height 80; the
\* label is the title value, and `length` is undefined unless that is a
\* string or an array
elkChild(node) ==
    [id     |-> node.id,
     width  |-> IF node.label.t = "str"
                THEN Max(200, Min(Len(node.label.s) * 8 + 60, 500))
                ELSE IF node.label.t = "arr"
                THEN Max(200, Min(Len(node.label.e) * 8 + 60, 500))
                ELSE NaN,
     height |-> 80]

\* lines 7-36
elkGraphOf(ns, es) ==
    [id       |-> "root",
     children |-> [i \in 1..Len(ns) |-> elkChild(ns[i])],
     edges    |-> [i \in 1..Len(es) |->
                      [id |-> es[i].id, sources |-> <<es[i].source>>,
                       targets |-> <<es[i].target>>]]]

\* variant: the layout result is not looked at
positionOfOrigin(children, id) == [x |-> 0, y |-> 0]

\* lines 42-48: layout.children?.find(n => n.id === node.id), `x || 0`
positionOf(children, id) ==
    IF \E c \in 1..Len(children) : children[c].id = id
    THEN LET layoutNode == children[CHOOSE c \in 1..Len(children) :
                                        /\ children[c].id = id
                                        /\ \A d \in 1..(c - 1) : children[d].id # id]
         IN [x |-> layoutNode.x, y |-> layoutNode.y]
    ELSE [x |-> 0, y |-> 0]

\* lines 40-52
layoutPlaced(ns, es, children) ==
    [nodes |-> [i \in 1..Len(ns) |->
                   [ns[i] EXCEPT !.position = positionOf(children, ns[i].id)]],
     edges |-> es,
     threw |-> FALSE]

\* variant: the failure reaches the caller
layoutFallbackRethrows(ns, es) ==
    [nodes |-> <<>>, edges |-> <<>>, threw |-> TRUE]

\* lines 53-56: catch, log, return { nodes, edges }
layoutFallback(ns, es) ==
    [nodes |-> ns, edges |-> es, threw |-> FALSE]

layoutGraph(ns, es, outcome) ==
    IF outcome.state = "failed" THEN layoutFallback(ns, es)
    ELSE layoutPlaced(ns, es, outcome.children)

\* lines 7-39: the request a call of layoutGraph leaves pending at the elk call
layoutRequest(ns, es) == [nodes |-> ns, edges |-> es, elkGraph |-> elkGraphOf(ns, es)]

(***************************************************************************)
(* The re-extract loop of the handlers (App.tsx 680-684, and the same loop *)
(* at 162-166, 719-723, 761-765): allRefs over newMap.forEach.             *)
(***************************************************************************)
RECURSIVE extractAll(_)
extractAll(schemas) ==
    IF schemas = <<>> THEN Returned(<<>>)
    ELSE Then(extractSchemaReferences(Head(schemas).schema, Head(schemas).name),
              extractAll(Tail(schemas)))

(***************************************************************************)
(* Inputs of the graph builder.                                            *)
(***************************************************************************)
\* sequences over S of length n or less
SeqsUpTo(S, n) == UNION { [1..k -> S] : k \in 0..n }

\* those without a repeated element
DistinctSeqsUpTo(S, n) ==
    { q \in SeqsUpTo(S, n) : \A i, j \in 1..Len(q) : i # j => q[i] # q[j] }

\* paths of hand-made collections: "a.json" is a suffix of "b.json-a.json",
\* and "a.json" + "-" + "b.json-a.json" = "a.json-b.json" + "-" + "a.json"
GraphPaths == { "a.json", "a.json-b.json", "b.json-a.json" }

GraphDoc(path) ==
    IF path = "a.json" THEN JObj(<<>>)
    ELSE IF path = "a.json-b.json"
    THEN JObj(<<KV("title", JStr("AB")),
                KV("properties", JObj(<<KV("p", JObj(<<KV("type", JStr("string"))>>)),
                                        KV("q", Holder("a.json"))>>))>>)
    ELSE JObj(<<KV("$id", JStr("urn:ba"))>>)

GraphCollections ==
    { [i \in 1..Len(q) |-> Entry(q[i], GraphDoc(q[i]))] :
        q \in DistinctSeqsUpTo(GraphPaths, MaxDocs) }

RelKinds == { <<"one-to-one", "p">>, <<"one-to-many", "">> }

RelPool ==
    { [from |-> ft[1], to |-> ft[2], refPath |-> ft[2],
       type |-> k[1], propertyName |-> k[2]] :
        ft \in { x \in GraphPaths \X GraphPaths : x[1] # x[2] }, k \in RelKinds }

NoExtract ==
    /\ schema = JNull
    /\ schemaName = ""
    /\ refs = <<>>

(***************************************************************************)
(* SpecGraph: one call createSchemaGraph(schemasMap, allRelationships,     *)
(* expandedNodes) on a hand-made relationship list.                        *)
(***************************************************************************)
InitGraph ==
    /\ NoExtract
    /\ schemasMap \in GraphCollections
    /\ allRelationships \in SeqsUpTo(RelPool, MaxRels)
    /\ expandedNodes \in { {}, {"a.json"} }
    /\ nodes = <<>>
    /\ edges = <<>>
    /\ threw = FALSE
    /\ NoApp
    /\ pc = "refs_done"

CreateGraph ==
    /\ pc = "refs_done"
    /\ ~threw
    /\ nodes' = createSchemaGraph(schemasMap, allRelationships, expandedNodes).nodes
    /\ edges' = createSchemaGraph(schemasMap, allRelationships, expandedNodes).edges
    /\ threw' = createSchemaGraph(schemasMap, allRelationships, expandedNodes).threw
    /\ pc' = "graph_done"
    /\ UNCHANGED <<schema, schemaName, refs, schemasMap, allRelationships, expandedNodes>>
    /\ UNCHANGED appVars

NextGraph == CreateGraph

SpecGraph == InitGraph /\ [][NextGraph]_vars

(***************************************************************************)
(* SpecResolve: createSchemaGraph on collections whose ids end with one    *)
(* another, and relationships written with exact, shortened and unknown    *)
(* paths.                                                                  *)
(***************************************************************************)
ResolvePaths == { "a.json", "v1/a.json", "v2/a.json" }

ResolveCollections ==
    { [i \in 1..Len(q) |-> Entry(q[i], JObj(<<>>))] :
        q \in DistinctSeqsUpTo(ResolvePaths, MaxDocs) }

ResolveRelPool ==
    { [from |-> f, to |-> t, refPath |-> t, type |-> "one-to-one", propertyName |-> "p"] :
        f \in { "a.json", "v1/a.json" }, t \in { "a.json", "v2/a.json", "x.json" } }

InitResolve ==
    /\ NoExtract
    /\ schemasMap \in ResolveCollections
    /\ allRelationships \in SeqsUpTo(ResolveRelPool, MaxRels)
    /\ expandedNodes = {}
    /\ nodes = <<>>
    /\ edges = <<>>
    /\ threw = FALSE
    /\ NoApp
    /\ pc = "refs_done"

NextResolve == CreateGraph

SpecResolve == InitResolve /\ [][NextResolve]_vars

(***************************************************************************)
(* SpecEntity: createSchemaGraph on one document, over paths with and      *)
(* without the version marker, the ".schema.json" suffix and empty         *)
(* segments.                                                               *)
(***************************************************************************)
EntityDirs == { "", "v1/", "v2/", "v1/user/", "/", "v1//", "x/v1/" }

EntityFiles ==
    { "", "user", "user.schema.json", "user.json", ".schema.json", "v1",
      "v1.schema.json", "user.schema.json.bak" }

EntityPaths == { dir \o file : dir \in EntityDirs, file \in EntityFiles }

InitEntity ==
    /\ NoExtract
    /\ schemasMap \in { <<Entry(path, JObj(<<>>))>> : path \in EntityPaths }
    /\ allRelationships = <<>>
    /\ expandedNodes = {}
    /\ nodes = <<>>
    /\ edges = <<>>
    /\ threw = FALSE
    /\ NoApp
    /\ pc = "refs_done"

NextEntity == CreateGraph

SpecEntity == InitEntity /\ [][NextEntity]_vars

(***************************************************************************)
(* Spec: a rebuild as the handlers run it (App.tsx 680-692): extract the   *)
(* references of every document of the collection, build the graph, call   *)
(* the layout and show what it returns.                                    *)
(***************************************************************************)
RebuildPaths == { "a.json", "b.json", "c.json", "v1/a.json" }

\* a document that is JSON null, and one with a null property
BadDocs == { JNull, Properties(<<KV("p", JNull)>>) }

RebuildDocs ==
    { JObj(<<>>), PlainProperty("p", "a.json"), ArrayProperty("list", "a.json"),
      BothProperties("./a.json") } \cup BadDocs

RebuildCollections ==
    { [i \in 1..Len(q) |-> Entry(q[i][1], q[i][2])] :
        q \in { r \in SeqsUpTo(RebuildPaths \X RebuildDocs, MaxDocs) :
                  \A i, j \in 1..Len(r) : i # j => r[i][1] # r[j][1] } }

Init ==
    /\ NoExtract
    /\ schemasMap \in RebuildCollections
    /\ allRelationships = <<>>
    /\ expandedNodes = {}
    /\ nodes = <<>>
    /\ edges = <<>>
    /\ threw = FALSE
    /\ NoApp
    /\ pc = "loaded"

ExtractAll ==
    /\ pc = "loaded"
    /\ allRelationships' = extractAll(schemasMap).refs
    /\ threw' = extractAll(schemasMap).threw
    /\ pc' = "refs_done"
    /\ UNCHANGED <<schema, schemaName, refs, schemasMap, expandedNodes, nodes, edges>>
    /\ UNCHANGED appVars

\* App.tsx 689: layoutGraph(rawNodes, rawEdges) is called and suspends at
\* the elk call (graphUtils.ts 39)
LayoutCall ==
    /\ pc = "graph_done"
    /\ ~threw
    /\ inFlight' = Append(inFlight, layoutRequest(nodes, edges))
    /\ pc' = "idle"
    /\ UNCHANGED <<schema, schemaName, refs, schemasMap, allRelationships,
                   expandedNodes, nodes, edges, threw,
                   layout, layoutedNodes, layoutedEdges, drops, ops,
                   timeoutId, editedContent, copiedPath>>

\* graphUtils.ts 39-56 and App.tsx 689-692: one pending elk call ends,
\* layoutGraph returns, and the `.then` callback runs setNodes and setEdges
LayoutResolve ==
    /\ pc = "idle"
    /\ \E i \in 1..Len(inFlight) : \E outcome \in ElkOutcomes(inFlight[i].nodes) :
          LET result == layoutGraph(inFlight[i].nodes, inFlight[i].edges, outcome)
          IN /\ layout' = outcome
             /\ threw' = result.threw
             /\ layoutedNodes' = IF result.threw THEN layoutedNodes ELSE result.nodes
             /\ layoutedEdges' = IF result.threw THEN layoutedEdges ELSE result.edges
             /\ inFlight' = SubSeq(inFlight, 1, i - 1)
                               \o SubSeq(inFlight, i + 1, Len(inFlight))
    /\ UNCHANGED <<schema, schemaName, refs, schemasMap, allRelationships,
                   expandedNodes, nodes, edges, pc, drops, ops,
                   timeoutId, editedContent, copiedPath>>

Next == ExtractAll \/ CreateGraph \/ LayoutCall \/ LayoutResolve

Spec == Init /\ [][Next]_vars

(***************************************************************************)
(* The handlers of the App around the document collection (App.tsx).       *)
(* A Map is the sequence of its entries in insertion order.                *)
(***************************************************************************)
\* Map.prototype.has / get / set / delete
mapHas(m, key) == \E i \in 1..Len(m) : m[i].name = key

mapGet(m, key) ==
    IF mapHas(m, key) THEN m[CHOOSE i \in 1..Len(m) : m[i].name = key].schema
    ELSE Undefined

\* an existing key keeps its place, a new key goes last
mapSet(m, key, value) ==
    IF mapHas(m, key)
    THEN [i \in 1..Len(m) |-> IF m[i].name = key THEN Entry(key, value) ELSE m[i]]
    ELSE Append(m, Entry(key, value))

RECURSIVE mapDelete(_, _)
mapDelete(m, key) ==
    IF m = <<>> THEN <<>>
    ELSE (IF Head(m).name = key THEN <<>> ELSE <<Head(m)>>) \o mapDelete(Tail(m), key)

\* lines 704-709: every key under the folder is deleted
RECURSIVE deleteFolder(_, _)
deleteFolder(m, path) ==
    IF m = <<>> THEN <<>>
    ELSE (IF startsWith(Head(m).name, path \o "/") THEN <<>> ELSE <<Head(m)>>)
            \o deleteFolder(Tail(m), path)

\* lines 699-700
isFolder(m, path) ==
    /\ ~mapHas(m, path)
    /\ \E i \in 1..Len(m) : startsWith(m[i].name, path \o "/")

\* String.prototype.replace with a pattern anchored at the end
stripSuffix(s, suffix) ==
    IF endsWith(s, suffix) THEN substring(s, 0, Len(s) - Len(suffix)) ELSE s

\* `${counter}` for the counters of a bounded run
counterText(n) == SubSeq("0123456789", n + 1, n + 1)

\* lines 739-742
copyDir(path) == join(pop(split(path, "/")), "/")

copyBaseName(path) ==
    LET parts    == split(path, "/")
        fileName == IF parts[Len(parts)] = "" THEN path ELSE parts[Len(parts)]
    IN stripSuffix(stripSuffix(fileName, ".schema.json"), ".json")

\* lines 747, 752: dir ? `${dir}/${newName}` : newName
inDir(dir, newName) == IF dir = "" THEN newName ELSE dir \o "/" \o newName

\* lines 743-752: the first free name among <base>-copy.schema.json,
\* <base>-copy-1.schema.json, <base>-copy-2.schema.json, ...
RECURSIVE findUniqueName(_, _, _, _, _)
findUniqueName(m, dir, baseName, newName, counter) ==
    IF mapHas(m, inDir(dir, newName))
    THEN findUniqueName(m, dir, baseName,
                        baseName \o "-copy-" \o counterText(counter) \o ".schema.json",
                        counter + 1)
    ELSE inDir(dir, newName)

copyPath(m, path) ==
    findUniqueName(m, copyDir(path), copyBaseName(path),
                   copyBaseName(path) \o "-copy.schema.json", 1)

\* line 754: JSON.parse(JSON.stringify(schemaData)), a fresh value built
\* entry by entry
RECURSIVE deepCopy(_)
RECURSIVE deepCopyAll(_)
deepCopy(v) ==
    IF v.t \in {"obj", "arr"} THEN JV(v.t, "", deepCopyAll(v.e)) ELSE JV(v.t, v.s, <<>>)
deepCopyAll(entries) ==
    IF entries = <<>> THEN <<>>
    ELSE <<KV(Head(entries).k, deepCopy(Head(entries).v))>> \o deepCopyAll(Tail(entries))

\* App.tsx 670, 685-692 (and the same lines of the other handlers):
\* setSchemasMap, setAllRelationships, createSchemaGraph, then layoutGraph,
\* whose result is awaited by the `.then` callback; a TypeError of
\* createSchemaGraph ends the handler after the two setters
Rebuild(newMap, allRefs, expanded) ==
    LET graph == createSchemaGraph(newMap, allRefs, expanded)
    IN /\ schemasMap' = newMap
       /\ allRelationships' = allRefs
       /\ nodes' = graph.nodes
       /\ edges' = graph.edges
       /\ threw' = graph.threw
       /\ inFlight' = IF graph.threw THEN inFlight
                      ELSE Append(inFlight, layoutRequest(graph.nodes, graph.edges))

\* what a handler that rebuilds leaves alone
HandlerFrame ==
    UNCHANGED <<schema, schemaName, refs, expandedNodes, pc,
                layout, layoutedNodes, layoutedEdges, timeoutId, editedContent, copiedPath>>

\* inputs of the handlers
AppPaths == { "a.json", "v1/b.json" }
AppDocs == { JObj(<<>>), PlainProperty("p", "../a.json") }
DropNames == { "a.json" }
DeletePaths == AppPaths \cup { "v1" }
ImportCollections ==
    { <<Entry("a.json", JObj(<<>>)), Entry("v1/b.json", PlainProperty("p", "../a.json"))>>,
      <<Entry("v1/b.json", ArrayProperty("list", "../a.json"))>> }

\* App.tsx 1113-1128 (and 1147-1163): onAddSchema(path, content)
onAddSchema ==
    /\ pc = "idle"
    /\ ops < MaxOps
    /\ \E path \in AppPaths : \E parsed \in AppDocs :
          Rebuild(mapSet(schemasMap, path, parsed),
                  allRelationships \o extractSchemaReferences(parsed, path).refs,
                  expandedNodes)
    /\ ops' = ops + 1
    /\ UNCHANGED drops
    /\ HandlerFrame

\* the text of an edit event and what JSON.parse makes of it
EditText(parsed) == [ok |-> TRUE, parsed |-> parsed]
InvalidText == [ok |-> FALSE, parsed |-> Undefined]
EditTexts == { EditText(parsed) : parsed \in AppDocs } \cup { InvalidText }

\* App.tsx 20-26: the function debounce returns; clearTimeout drops the
\* pending call, setTimeout leaves the new one pending
debounce(timer, path, content) == <<[path |-> path, content |-> content]>>

\* Editor.tsx 405-414: handleEditorChange(value) with activeFile = path, a
\* file of the collection open in the editor; onSchemaChange is
\* debouncedMultiSchemaChange (App.tsx 183-186, 1112)
handleEditorChange ==
    /\ pc = "idle"
    /\ ops < MaxOps
    /\ \E path \in AppPaths : \E value \in EditTexts :
          /\ mapHas(schemasMap, path)
          /\ editedContent' = mapSet(editedContent, path, value)
          /\ timeoutId' = debounce(timeoutId, path, value)
    /\ ops' = ops + 1
    /\ UNCHANGED <<schema, schemaName, refs, schemasMap, allRelationships, expandedNodes,
                   nodes, edges, threw, pc, inFlight, layout, layoutedNodes, layoutedEdges,
                   drops, copiedPath>>

\* App.tsx 24 and 154-181: the timer fires and calls
\* handleMultiSchemaChange(path, content); text that does not parse changes
\* nothing (lines 178-180)
handleMultiSchemaChange ==
    /\ pc = "idle"
    /\ \E i \in 1..Len(timeoutId) :
          LET path   == timeoutId[i].path
              parsed == timeoutId[i].content.parsed
          IN /\ IF timeoutId[i].content.ok
                THEN Rebuild(mapSet(schemasMap, path, parsed),
                             extractAll(mapSet(schemasMap, path, parsed)).refs,
                             expandedNodes)
                ELSE UNCHANGED <<schemasMap, allRelationships, nodes, edges, threw, inFlight>>
             /\ timeoutId' = SubSeq(timeoutId, 1, i - 1)
                                \o SubSeq(timeoutId, i + 1, Len(timeoutId))
    /\ UNCHANGED <<schema, schemaName, refs, expandedNodes, pc,
                   layout, layoutedNodes, layoutedEdges, drops, ops, editedContent, copiedPath>>

\* App.tsx 663-693: handleMoveFile(oldPath, newPath)
handleMoveFile ==
    /\ pc = "idle"
    /\ ops < MaxOps
    /\ \E oldPath \in AppPaths : \E newPath \in AppPaths :
          LET newMap == mapSet(mapDelete(schemasMap, oldPath), newPath,
                               mapGet(schemasMap, oldPath))
          IN /\ Truthy(mapGet(schemasMap, oldPath))
             /\ Rebuild(newMap, extractAll(newMap).refs, expandedNodes)
    /\ ops' = ops + 1
    /\ UNCHANGED drops
    /\ HandlerFrame

\* App.tsx 695-732: handleDeleteFile(path)
handleDeleteFile ==
    /\ pc = "idle"
    /\ ops < MaxOps
    /\ \E path \in DeletePaths :
          LET newMap == IF isFolder(schemasMap, path) THEN deleteFolder(schemasMap, path)
                        ELSE mapDelete(schemasMap, path)
          IN Rebuild(newMap, extractAll(newMap).refs, expandedNodes)
    /\ ops' = ops + 1
    /\ UNCHANGED drops
    /\ HandlerFrame

\* paths handed to handleCopyFile: the loaded ones and one that is not
CopyArguments == { schemasMap[i].name : i \in 1..Len(schemasMap) } \cup { "missing.json" }

\* App.tsx 734-774: handleCopyFile(path); line 736 returns when
\* schemasMap.get(path) is not truthy
handleCopyFile ==
    /\ pc = "idle"
    /\ ops < MaxOps
    /\ \E arg \in CopyArguments :
          LET schemaData == mapGet(schemasMap, arg)
              newMap     == mapSet(schemasMap, copyPath(schemasMap, arg), deepCopy(schemaData))
          IN /\ copiedPath' = arg
             /\ IF Truthy(schemaData)
                THEN Rebuild(newMap, extractAll(newMap).refs, expandedNodes)
                ELSE UNCHANGED <<schemasMap, allRelationships, nodes, edges, threw, inFlight>>
    /\ ops' = ops + 1
    /\ UNCHANGED <<schema, schemaName, refs, expandedNodes, pc, layout, layoutedNodes,
                   layoutedEdges, drops, timeoutId, editedContent>>

\* App.tsx 776-791: handleClearAll()
handleClearAll ==
    /\ pc = "idle"
    /\ ops < MaxOps
    /\ schemasMap' = <<>>
    /\ allRelationships' = <<>>
    /\ layoutedNodes' = <<>>
    /\ layoutedEdges' = <<>>
    /\ ops' = ops + 1
    /\ UNCHANGED <<schema, schemaName, refs, expandedNodes, nodes, edges, threw, pc,
                   inFlight, layout, drops, timeoutId, editedContent, copiedPath>>

\* App.tsx 814-883: handleImportSchemas, from the end of the reading of the
\* ZIP (line 840) to the call of layoutGraph (line 858)
handleImportSchemas ==
    /\ pc = "idle"
    /\ ops < MaxOps
    /\ \E newSchemasMap \in ImportCollections :
          Rebuild(newSchemasMap, extractAll(newSchemasMap).refs, {})
    /\ ops' = ops + 1
    /\ UNCHANGED drops
    /\ HandlerFrame

\* App.tsx 910-955: handleDrop of one .json file copies schemasMap and
\* allRelationships as rendered and suspends at `await file.text()`
handleDropStart ==
    /\ pc = "idle"
    /\ ops < MaxOps
    /\ \E name \in DropNames : \E parsed \in AppDocs :
          drops' = Append(drops, [newSchemasMap |-> schemasMap,
                                  allRefs |-> allRelationships,
                                  name |-> name, parsed |-> parsed])
    /\ ops' = ops + 1
    /\ UNCHANGED <<schema, schemaName, refs, schemasMap, allRelationships, expandedNodes,
                   nodes, edges, threw, pc, inFlight, layout, layoutedNodes, layoutedEdges,
                   timeoutId, editedContent, copiedPath>>

\* App.tsx 956-975: the text is there; the file is set into the copy, its
\* references are pushed after the copied ones, and the graph is rebuilt
handleDropResume ==
    /\ pc = "idle"
    /\ \E i \in 1..Len(drops) :
          /\ Rebuild(mapSet(drops[i].newSchemasMap, drops[i].name, drops[i].parsed),
                     drops[i].allRefs
                        \o extractSchemaReferences(drops[i].parsed, drops[i].name).refs,
                     expandedNodes)
          /\ drops' = SubSeq(drops, 1, i - 1) \o SubSeq(drops, i + 1, Len(drops))
    /\ UNCHANGED ops
    /\ HandlerFrame

InitApp ==
    /\ NoExtract
    /\ schemasMap = <<>>
    /\ allRelationships = <<>>
    /\ expandedNodes = {}
    /\ nodes = <<>>
    /\ edges = <<>>
    /\ threw = FALSE
    /\ NoApp
    /\ pc = "idle"

NextApp ==
    \/ onAddSchema
    \/ handleEditorChange
    \/ handleMultiSchemaChange
    \/ handleMoveFile
    \/ handleDeleteFile
    \/ handleCopyFile
    \/ handleClearAll
    \/ handleImportSchemas
    \/ handleDropStart
    \/ handleDropResume
    \/ LayoutResolve

SpecApp == InitApp /\ [][NextApp]_vars

(***************************************************************************)
(* Vocabulary of the properties, written without the operators above.      *)
(***************************************************************************)
CharAt(s, i) == SubSeq(s, i, i)
HasChar(s, c) == \E i \in 1..Len(s) : CharAt(s, i) = c
FirstPos(s, c) == CHOOSE i \in 1..Len(s) :
                      CharAt(s, i) = c /\ \A j \in 1..(i - 1) : CharAt(s, j) # c
LastPos(s, c) == CHOOSE i \in 1..Len(s) :
                     CharAt(s, i) = c /\ \A j \in (i + 1)..Len(s) : CharAt(s, j) # c

\* the part of a $ref before its first '#'
FilePart(ref) == IF HasChar(ref, "#") THEN SubSeq(ref, 1, FirstPos(ref, "#") - 1) ELSE ref

\* the text of a path before its last '/', "" when there is none
Directory(path) == IF HasChar(path, "/") THEN SubSeq(path, 1, LastPos(path, "/") - 1) ELSE ""

HasSuffix(s, suffix) ==
    \E i \in 1..(Len(s) + 1) : SubSeq(s, i, Len(s)) = suffix
HasPrefix(s, prefix) ==
    \E i \in 0..Len(s) : SubSeq(s, 1, i) = prefix

\* a $ref the extractor is to collect
NamesFile(ref) == FilePart(ref) # "" /\ HasSuffix(FilePart(ref), ".json")
IsRelativeRef(ref) == HasPrefix(ref, "./") \/ HasPrefix(ref, "../")

\* the segments of a path: maximal non-empty runs free of '/', left to right
SegmentBounds(s) ==
    { b \in (1..Len(s)) \X (1..Len(s)) :
        /\ b[1] <= b[2]
        /\ \A i \in b[1]..b[2] : CharAt(s, i) # "/"
        /\ (b[1] = 1 \/ CharAt(s, b[1] - 1) = "/")
        /\ (b[2] = Len(s) \/ CharAt(s, b[2] + 1) = "/") }

RECURSIVE SegmentsFrom(_, _)
SegmentsFrom(s, bounds) ==
    IF bounds = {} THEN <<>>
    ELSE LET first == CHOOSE b \in bounds : \A c \in bounds : b[1] <= c[1]
         IN <<SubSeq(s, first[1], first[2])>> \o SegmentsFrom(s, bounds \ {first})

Segments(s) == SegmentsFrom(s, SegmentBounds(s))

\* walk the segments left to right over a stack: '..' pops, '.' is a no-op
RECURSIVE Walk(_, _, _)
Walk(stack, segs, i) ==
    IF i > Len(segs) THEN stack
    ELSE Walk(IF segs[i] = ".." THEN SubSeq(stack, 1, Len(stack) - 1)
              ELSE IF segs[i] = "." THEN stack
              ELSE stack \o <<segs[i]>>,
              segs, i + 1)

RECURSIVE Slashed(_)
Slashed(segs) ==
    IF Len(segs) = 0 THEN ""
    ELSE IF Len(segs) = 1 THEN segs[1]
    ELSE Slashed(SubSeq(segs, 1, Len(segs) - 1)) \o "/" \o segs[Len(segs)]

RelativeTarget(path, ref) == Slashed(Walk(Segments(Directory(path)), Segments(ref), 1))

\* every object or array inside a document, with the key it is stored under
RECURSIVE NodesOf(_, _)
NodesOf(v, key) ==
    IF v.t \notin {"obj", "arr"} THEN {}
    ELSE {[n |-> v, k |-> key]}
            \cup UNION { NodesOf(v.e[i].v, v.e[i].k) : i \in 1..Len(v.e) }

\* <<key of the array node, $ref string>> of every $ref holder that is the
\* direct `items` of a node whose type is "array"
ArrayItemRefs(doc) ==
    { <<x.k, Get(Get(x.n, "items"), "$ref").s>> :
        x \in { y \in NodesOf(doc, "") :
                  /\ y.n.t = "obj"
                  /\ Get(y.n, "type") = JStr("array")
                  /\ Get(y.n, "items").t = "obj"
                  /\ Get(Get(y.n, "items"), "$ref").t = "str" } }

\* the ids of the loaded documents
LoadedIds == { schemasMap[i].name : i \in 1..Len(schemasMap) }

\* the node id a relationship path stands for: the path itself when loaded,
\* else the first loaded id, in insertion order, that ends with it
FirstEndingWith(path) ==
    CHOOSE i \in 1..Len(schemasMap) :
        /\ HasSuffix(schemasMap[i].name, path)
        /\ \A j \in 1..(i - 1) : ~HasSuffix(schemasMap[j].name, path)

Resolvable(path) == \E id \in LoadedIds : HasSuffix(id, path)

ResolvedId(path) ==
    IF path \in LoadedIds THEN path ELSE schemasMap[FirstEndingWith(path)].name

\* the positions of the relationships with a given (from, to)
Occurrences(f, t) ==
    { i \in 1..Len(allRelationships) :
        allRelationships[i].from = f /\ allRelationships[i].to = t }

EdgesBetween(src, tgt) ==
    { i \in 1..Len(edges) : edges[i].source = src /\ edges[i].target = tgt }

NodeOf(id) == nodes[CHOOSE i \in 1..Len(nodes) : nodes[i].id = id]

\* the collection {a.json (empty), b.json with a.json as a plain property,
\* c.json with a.json as the items of an array property}, in any order
IsScenario(collection) ==
    /\ Len(collection) = 3
    /\ { collection[i] : i \in 1..3 } =
          { Entry("a.json", JObj(<<>>)),
            Entry("b.json", PlainProperty("p", "a.json")),
            Entry("c.json", ArrayProperty("list", "a.json")) }

GraphDone == pc = "graph_done"

(***************************************************************************)
(* C1: every node of createSchemaGraph has isRoot = TRUE iff no            *)
(* relationship of the whole input list has `to` equal to the node's path, *)
(* whatever the expanded set and whether or not an edge was matched.       *)
(***************************************************************************)
C1_RootIffNotTargeted ==
    GraphDone =>
        /\ Len(nodes) = Len(schemasMap)
        /\ \A i \in 1..Len(nodes) :
              /\ nodes[i].id = schemasMap[i].name
              /\ nodes[i].isRoot <=>
                    \A r \in 1..Len(allRelationships) :
                        allRelationships[r].to # nodes[i].id

\* a targeted node without any edge, next to a root, with a node expanded
C1_Witness ==
    /\ GraphDone
    /\ edges = <<>>
    /\ expandedNodes # {}
    /\ \E i, j \in 1..Len(nodes) : ~nodes[i].isRoot /\ nodes[j].isRoot

(***************************************************************************)
(* C2: for N >= 2 relationships sharing one (from, to) pair, both ends     *)
(* resolving to loaded documents, exactly one edge is emitted for the      *)
(* pair, with count = N and type "multiple".                               *)
(***************************************************************************)
C2_DedupCountsThePair ==
    GraphDone =>
        \A r \in 1..Len(allRelationships) :
            LET f == allRelationships[r].from
                t == allRelationships[r].to
                N == Cardinality(Occurrences(f, t))
            IN (N >= 2 /\ Resolvable(f) /\ Resolvable(t)) =>
                  /\ Cardinality(EdgesBetween(ResolvedId(f), ResolvedId(t))) = 1
                  /\ \A e \in EdgesBetween(ResolvedId(f), ResolvedId(t)) :
                        edges[e].count = N /\ edges[e].type = "multiple"

(***************************************************************************)
(* C3 as stated: for the collection {a.json empty, b.json referencing      *)
(* a.json once, c.json referencing a.json through array items}, the        *)
(* rebuild gives 3 nodes, a with isRoot = TRUE, b and c with isRoot =      *)
(* FALSE.                                                                  *)
(***************************************************************************)
C3_RootFlagsAsStated ==
    (GraphDone /\ IsScenario(schemasMap)) =>
        /\ Len(nodes) = 3
        /\ NodeOf("a.json").isRoot
        /\ ~NodeOf("b.json").isRoot
        /\ ~NodeOf("c.json").isRoot

(***************************************************************************)
(* C3 amended: for that collection the rebuild gives 3 nodes, a (the       *)
(* target of both references) with isRoot = FALSE, b and c (targeted by    *)
(* nothing) with isRoot = TRUE.                                            *)
(***************************************************************************)
C3_RootFlags ==
    (GraphDone /\ IsScenario(schemasMap)) =>
        /\ ~threw
        /\ Len(nodes) = 3
        /\ { nodes[i].id : i \in 1..3 } = { "a.json", "b.json", "c.json" }
        /\ ~NodeOf("a.json").isRoot
        /\ NodeOf("b.json").isRoot
        /\ NodeOf("c.json").isRoot

C3_Witness ==
    /\ GraphDone
    /\ IsScenario(schemasMap)
    /\ Len(allRelationships) = 2
    /\ Len(nodes) = 3

(***************************************************************************)
(* C4: for that collection the rebuild gives exactly 2 edges, b -> a       *)
(* classified one-to-one and c -> a classified one-to-many.                *)
(***************************************************************************)
C4_ScenarioEdges ==
    (GraphDone /\ IsScenario(schemasMap)) =>
        /\ Len(edges) = 2
        /\ { <<edges[i].source, edges[i].target, edges[i].type>> : i \in 1..Len(edges) } =
              { <<"b.json", "a.json", "one-to-one">>,
                <<"c.json", "a.json", "one-to-many">> }

C4_Witness ==
    /\ GraphDone
    /\ IsScenario(schemasMap)
    /\ Len(edges) = 2
    /\ \E i \in 1..2 : edges[i].id = "c.json-a.json" /\ edges[i].count = 1

Extracted == pc = "extract_done"

(***************************************************************************)
(* C5: every relationship returned by extractSchemaReferences has a `to`   *)
(* ending in ".json", and none comes from a $ref that is fragment-only or  *)
(* whose part before '#' does not end in ".json".                          *)
(***************************************************************************)
C5_TargetsAreJsonFiles ==
    Extracted =>
        \A i \in 1..Len(refs) :
            /\ HasSuffix(refs[i].to, ".json")
            /\ ~HasPrefix(refs[i].refPath, "#")
            /\ HasSuffix(FilePart(refs[i].refPath), ".json")

\* a document holding a fragment-only $ref next to a cross-file one: only
\* the cross-file one is returned
C5_Witness ==
    /\ Extracted
    /\ schema = AllOf("#/definitions/X")
    /\ Len(refs) = 1
    /\ refs[1].refPath = "b.json"

(***************************************************************************)
(* C6: a ref starting with "./" or "../" is resolved against the directory *)
(* of the referencing document, segment by segment from the left, ".."     *)
(* popping the last segment and "." doing nothing; "../address/            *)
(* address.schema.json" in "v1/user/user.schema.json" gives                *)
(* "v1/address/address.schema.json".                                       *)
(***************************************************************************)
C6_RelativeResolution ==
    Extracted =>
        /\ \A i \in 1..Len(refs) :
              IsRelativeRef(refs[i].refPath) =>
                  refs[i].to = RelativeTarget(schemaName, FilePart(refs[i].refPath))
        /\ ( /\ schema = Holder("../address/address.schema.json")
             /\ schemaName = "v1/user/user.schema.json" )
           => /\ Len(refs) = 1
              /\ refs[1].to = "v1/address/address.schema.json"

C6_Witness ==
    /\ Extracted
    /\ schema = Holder("../address/address.schema.json")
    /\ schemaName = "v1/user/user.schema.json"
    /\ Len(refs) = 1
    /\ refs[1].from = "v1/user/user.schema.json"

(***************************************************************************)
(* C7 as stated: the ref "role.schema.json" inside the document            *)
(* "v1/user/user.schema.json" produces `to` = "v1/role.schema.json".       *)
(***************************************************************************)
C7_BareNameAsStated ==
    (Extracted /\ schemaName = "v1/user/user.schema.json") =>
        \A i \in 1..Len(refs) :
            refs[i].refPath = "role.schema.json" => refs[i].to = "v1/role.schema.json"

(***************************************************************************)
(* C7 amended: the ref "role.schema.json" inside the document              *)
(* "v1/user/user.schema.json" produces `to` = "v1/user/role.schema.json",  *)
(* the sibling of the referencing document.                                *)
(***************************************************************************)
C7_BareNameIsSibling ==
    (Extracted /\ schemaName = "v1/user/user.schema.json") =>
        /\ \A i \in 1..Len(refs) :
              refs[i].refPath = "role.schema.json" => refs[i].to = "v1/user/role.schema.json"
        /\ schema = Holder("role.schema.json") => Len(refs) = 1

C7_Witness ==
    /\ Extracted
    /\ schemaName = "v1/user/user.schema.json"
    /\ schema = Holder("role.schema.json")
    /\ Len(refs) = 1
    /\ refs[1].refPath = "role.schema.json"

(***************************************************************************)
(* C8: a ref (its part before '#') that does not start with "./" or "../"  *)
(* and holds no '/' resolves to "<directory>/<ref>", or to the bare ref    *)
(* when the referencing path has no directory; one that holds a '/' and    *)
(* does not start with "./" or "../" is used unchanged.                    *)
(***************************************************************************)
C8_NonRelativeResolution ==
    Extracted =>
        \A i \in 1..Len(refs) :
            LET file == FilePart(refs[i].refPath) IN
            ~IsRelativeRef(file) =>
                refs[i].to = IF HasChar(file, "/") THEN file
                             ELSE IF Directory(schemaName) = "" THEN file
                             ELSE Directory(schemaName) \o "/" \o file

\* a bare name with a fragment, in a document that has a directory
C8_Witness ==
    /\ Extracted
    /\ schemaName = "v1/b.json"
    /\ schema = Holder("a.json#/definitions/X")
    /\ Len(refs) = 1
    /\ refs[1].to = "v1/a.json"

(***************************************************************************)
(* C9: a cross-file $ref that is the direct `items` of a node of type      *)
(* "array" is extracted as one-to-many; the same $ref as a plain property  *)
(* is extracted as one-to-one.                                             *)
(***************************************************************************)
C9_ArrayCardinality ==
    Extracted =>
        /\ \A i \in 1..Len(refs) :
              refs[i].type = "one-to-many"
                  <=> <<refs[i].propertyName, refs[i].refPath>> \in ArrayItemRefs(schema)
        /\ \A i \in 1..Len(refs) : refs[i].type \in {"one-to-many", "one-to-one"}
        /\ \A ref \in RefPool : \A n \in 0..MaxDepth :
              NamesFile(ref) =>
                  /\ schema = WrapTimes(ArrayProperty("p", ref), n)
                        => /\ Len(refs) = 1
                           /\ refs[1].type = "one-to-many"
                           /\ refs[1].refPath = ref
                  /\ schema = WrapTimes(PlainProperty("p", ref), n)
                        => /\ Len(refs) = 1
                           /\ refs[1].type = "one-to-one"
                           /\ refs[1].refPath = ref

\* the same $ref once as a plain property and once as array items
C9_Witness ==
    /\ Extracted
    /\ schema = BothProperties("./a.json")
    /\ Len(refs) = 2
    /\ refs[1].type = "one-to-one"
    /\ refs[2].type = "one-to-many"

(***************************************************************************)
(* C10: extractSchemaReferences of a document that is not an object (null, *)
(* number, string, boolean) returns an empty sequence and raises nothing.  *)
(***************************************************************************)
C10_NonObjectYieldsNothing ==
    (Extracted /\ schema.t \in {"null", "num", "str", "bool"}) =>
        refs = <<>> /\ ~threw

C10_Witness ==
    /\ Extracted
    /\ schema = JNull
    /\ refs = <<>>
    /\ ~threw

\* the number of object nodes of a document, at any depth and under any key,
\* that carry a string $ref naming a file
IsHolder(v) ==
    /\ v.t = "obj"
    /\ \E i \in 1..Len(v.e) :
          v.e[i].k = "$ref" /\ v.e[i].v.t = "str" /\ NamesFile(v.e[i].v.s)

RECURSIVE HolderCount(_), HolderCountIn(_, _)
HolderCount(v) ==
    IF v.t \notin {"obj", "arr"} THEN 0
    ELSE (IF IsHolder(v) THEN 1 ELSE 0) + HolderCountIn(v.e, 1)
HolderCountIn(entries, i) ==
    IF i > Len(entries) THEN 0
    ELSE HolderCount(entries[i].v) + HolderCountIn(entries, i + 1)

(***************************************************************************)
(* C11: extractSchemaReferences returns exactly one relationship for every *)
(* object node of the document, at any depth and under any key, that       *)
(* carries a string $ref whose part before '#' is non-empty and ends with  *)
(* ".json"; occurrences with the same (from, to) are returned separately.  *)
(***************************************************************************)
C11_OneRelationshipPerHolder ==
    Extracted => (~threw /\ Len(refs) = HolderCount(schema))

\* the layout call of the rebuild has returned to its caller
LayoutDone == pc = "idle" /\ inFlight = <<>> /\ layout.state # "none"

(***************************************************************************)
(* C13: when the external layout call fails, layoutGraph does not fail its *)
(* caller and returns the input nodes (same ids, same data, position as in *)
(* the input) and the input edges unmodified.                              *)
(***************************************************************************)
C13_LayoutFailureFallback ==
    (LayoutDone /\ layout.state = "failed") =>
        /\ ~threw
        /\ layoutedNodes = nodes
        /\ layoutedEdges = edges

\* a failed layout of a graph with three nodes and two edges
C13_Witness ==
    /\ LayoutDone
    /\ layout.state = "failed"
    /\ Len(nodes) = 3
    /\ Len(edges) = 2
    /\ layoutedNodes = nodes
    /\ layoutedEdges = edges

\* both ends of a relationship stand for loaded documents
BothResolvable(rel) == Resolvable(rel.from) /\ Resolvable(rel.to)

NodeIds == { nodes[i].id : i \in 1..Len(nodes) }

(***************************************************************************)
(* C14: every edge of createSchemaGraph has a source and a target that are *)
(* ids of returned nodes; a relationship whose from or to cannot be        *)
(* resolved to a loaded document, exactly or by suffix, produces no edge   *)
(* and no error: every edge joins the resolved ends of a relationship      *)
(* whose two ends resolve.                                                 *)
(***************************************************************************)
C14_EdgesJoinNodes ==
    GraphDone =>
        /\ ~threw
        /\ \A e \in 1..Len(edges) :
              /\ edges[e].source \in NodeIds
              /\ edges[e].target \in NodeIds
              /\ \E r \in 1..Len(allRelationships) :
                    /\ BothResolvable(allRelationships[r])
                    /\ ResolvedId(allRelationships[r].from) = edges[e].source
                    /\ ResolvedId(allRelationships[r].to) = edges[e].target
        /\ (\A r \in 1..Len(allRelationships) : ~BothResolvable(allRelationships[r]))
              => edges = <<>>

\* one relationship with both ends loaded next to one with a dangling end:
\* a single edge, for the first
C14_Witness ==
    /\ GraphDone
    /\ ~threw
    /\ Len(allRelationships) = 2
    /\ BothResolvable(allRelationships[1])
    /\ ~Resolvable(allRelationships[2].to)
    /\ Len(edges) = 1
    /\ edges[1].source = ResolvedId(allRelationships[1].from)

\* the node pairs the relationships stand for, dangling relationships left out
ResolvedPairs ==
    { <<ResolvedId(allRelationships[r].from), ResolvedId(allRelationships[r].to)>> :
        r \in { q \in 1..Len(allRelationships) : BothResolvable(allRelationships[q]) } }

(***************************************************************************)
(* C15: an end of a relationship that equals a node id is that node, even  *)
(* when other node ids end with the same string; otherwise it is the first *)
(* node id, in insertion order, that ends with it; otherwise the raw path  *)
(* is kept and the group yields no edge.  So the edges are, one each, the  *)
(* pairs so resolved of the relationships whose two ends resolve.          *)
(***************************************************************************)
C15_EndpointResolution ==
    GraphDone =>
        /\ { <<edges[e].source, edges[e].target>> : e \in 1..Len(edges) } = ResolvedPairs
        /\ Len(edges) = Cardinality(ResolvedPairs)
        /\ \A r \in 1..Len(allRelationships) :
              LET rel == allRelationships[r]
              IN BothResolvable(rel) =>
                    /\ rel.from \in LoadedIds => EdgesBetween(rel.from, ResolvedId(rel.to)) # {}
                    /\ rel.to \in LoadedIds => EdgesBetween(ResolvedId(rel.from), rel.to) # {}

\* "a.json" is not loaded and two loaded ids end with it: the one inserted
\* first is the target
C15_Witness ==
    /\ GraphDone
    /\ Len(schemasMap) = 2
    /\ schemasMap[1].name = "v2/a.json"
    /\ schemasMap[2].name = "v1/a.json"
    /\ Len(allRelationships) = 1
    /\ allRelationships[1].from = "v1/a.json"
    /\ allRelationships[1].to = "a.json"
    /\ Len(edges) = 1
    /\ edges[1].source = "v1/a.json"
    /\ edges[1].target = "v2/a.json"

\* the relationship an edge is emitted for: the first of the list whose two
\* ends resolve to the edge's source and target
EdgeHead(e) ==
    CHOOSE r \in 1..Len(allRelationships) :
        LET Stands(q) == /\ BothResolvable(allRelationships[q])
                         /\ ResolvedId(allRelationships[q].from) = edges[e].source
                         /\ ResolvedId(allRelationships[q].to) = edges[e].target
        IN Stands(r) /\ \A q \in 1..(r - 1) : ~Stands(q)

\* the relationship group of an edge: the relationships with the (from, to)
\* of that first relationship
GroupOf(e) ==
    Occurrences(allRelationships[EdgeHead(e)].from, allRelationships[EdgeHead(e)].to)

(***************************************************************************)
(* C16: an emitted edge has type "multiple" iff its relationship group has *)
(* more than one member; otherwise it has type "one-to-many" iff the       *)
(* single relationship of the group is one-to-many, and "one-to-one"       *)
(* otherwise.                                                              *)
(***************************************************************************)
C16_EdgeClassification ==
    GraphDone =>
        \A e \in 1..Len(edges) :
            edges[e].type =
                IF Cardinality(GroupOf(e)) > 1 THEN "multiple"
                ELSE IF allRelationships[EdgeHead(e)].type = "one-to-many" THEN "one-to-many"
                ELSE "one-to-one"

\* the non-empty property names of the group of an edge
GroupNames(e) ==
    { allRelationships[r].propertyName : r \in GroupOf(e) } \ {""}

(***************************************************************************)
(* C17: for every emitted edge, propertyNames holds each non-empty         *)
(* property name of the edge's relationship group exactly once (no         *)
(* duplicate, no empty name), and count is the size of the group.          *)
(***************************************************************************)
C17_NamesOnceAndCount ==
    GraphDone =>
        \A e \in 1..Len(edges) :
            /\ { edges[e].propertyNames[i] : i \in 1..Len(edges[e].propertyNames) }
                  = GroupNames(e)
            /\ Len(edges[e].propertyNames) = Cardinality(GroupNames(e))
            /\ edges[e].count = Cardinality(GroupOf(e))

\* how many times x occurs in a sequence
Times(q, x) == Cardinality({ i \in 1..Len(q) : q[i] = x })

\* two sequences hold the same elements the same number of times
SameMembers(q, r) ==
    \A x \in { q[i] : i \in 1..Len(q) } \cup { r[i] : i \in 1..Len(r) } :
        Times(q, x) = Times(r, x)

(***************************************************************************)
(* C18: after every mutation of the document collection (add, drop of      *)
(* files, delete, move, copy, edit, import) the relationship list handed   *)
(* to createSchemaGraph is the union of extractSchemaReferences(doc, path) *)
(* over the documents of the current collection, with no relationship of   *)
(* a document version or path that is no longer in the collection.         *)
(***************************************************************************)
C18_RelationshipsOfCurrentCollection ==
    SameMembers(allRelationships, extractAll(schemasMap).refs)

\* a node without its position
Placeless(node) == [node EXCEPT !.position = [x |-> 0, y |-> 0]]

\* the displayed graph is the graph of the last rebuild, positions aside
ShowsLastRebuild ==
    /\ Len(layoutedNodes) = Len(nodes)
    /\ \A i \in 1..Len(nodes) : Placeless(layoutedNodes[i]) = Placeless(nodes[i])
    /\ layoutedEdges = edges

\* no handler is suspended and no layout is in flight
Settled == inFlight = <<>> /\ drops = <<>>

(***************************************************************************)
(* C19: stale layout results are discarded: when rebuild B is requested    *)
(* after rebuild A and A's layout resolves after B's, A's result does not  *)
(* replace B's; once all in-flight layouts have resolved, the displayed    *)
(* nodes and edges are those of the most recently requested rebuild.  (A   *)
(* non-empty collection is the work of a rebuild, not of Clear All.)       *)
(***************************************************************************)
C19_StaleLayoutDiscarded ==
    (Settled /\ ~threw /\ schemasMap # <<>>) => ShowsLastRebuild

(***************************************************************************)
(* C20: createSchemaGraph raises no exception for any document collection, *)
(* one that holds a bad document included (a JSON null, or a `properties`  *)
(* entry whose value is null): it returns one node per document and the    *)
(* edges of the remaining documents.                                       *)
(***************************************************************************)
C20_BadDocumentTolerated ==
    GraphDone =>
        /\ ~threw
        /\ Len(nodes) = Len(schemasMap)
        /\ \A i \in 1..Len(schemasMap) : nodes[i].id = schemasMap[i].name
        /\ { <<edges[e].source, edges[e].target>> : e \in 1..Len(edges) } = ResolvedPairs

\* a path without a trailing ".schema.json"
Stripped(path) ==
    IF HasSuffix(path, ".schema.json") THEN SubSeq(path, 1, Len(path) - 12) ELSE path

\* the pieces of a string between its '/', empty ones included
SlashPositions(s) == { i \in 1..Len(s) : CharAt(s, i) = "/" }
NthSlash(s, k) ==
    CHOOSE i \in SlashPositions(s) : Cardinality({ j \in SlashPositions(s) : j <= i }) = k
PieceCount(s) == Cardinality(SlashPositions(s)) + 1
Piece(s, k) ==
    SubSeq(s, IF k = 1 THEN 1 ELSE NthSlash(s, k - 1) + 1,
              IF k = PieceCount(s) THEN Len(s) ELSE NthSlash(s, k) - 1)

EntityTypeOf(path) ==
    LET w == Stripped(path)
    IN IF PieceCount(w) >= 2 /\ Piece(w, 1) = "v1" /\ Piece(w, 2) # ""
       THEN Piece(w, 2)
       ELSE IF Piece(w, PieceCount(w)) # "" THEN Piece(w, PieceCount(w))
       ELSE "unknown"

(***************************************************************************)
(* C21: the entityType of a node is found by stripping a trailing          *)
(* ".schema.json" from the path and splitting on '/': the second segment   *)
(* when the first is "v1" and the second is not empty, otherwise the final *)
(* segment, or "unknown" when that segment is empty.                       *)
(***************************************************************************)
C21_EntityType ==
    GraphDone =>
        \A i \in 1..Len(nodes) : nodes[i].entityType = EntityTypeOf(nodes[i].id)

\* a versioned path: the directory after the marker, not the file name
C21_Witness ==
    /\ GraphDone
    /\ Len(nodes) = 1
    /\ nodes[1].id = "v1/user/user.schema.json"
    /\ nodes[1].entityType = "user"

\* the place the last layout result gives to an id, the origin when the
\* result does not hold the id
AssignedPlace(id) ==
    IF \E c \in 1..Len(layout.children) : layout.children[c].id = id
    THEN LET child == layout.children[CHOOSE c \in 1..Len(layout.children) :
                                          layout.children[c].id = id]
         IN [x |-> child.x, y |-> child.y]
    ELSE [x |-> 0, y |-> 0]

(***************************************************************************)
(* C22: on layout success layoutGraph returns the input nodes in the same  *)
(* order with the same ids and data, each at the (x, y) the layout result  *)
(* assigned to its id, or at (0, 0) when the result does not hold the id,  *)
(* without throwing; the edge list is returned unchanged.                  *)
(***************************************************************************)
C22_LayoutSuccess ==
    (LayoutDone /\ layout.state = "done") =>
        /\ ~threw
        /\ Len(layoutedNodes) = Len(nodes)
        /\ \A i \in 1..Len(nodes) :
              /\ [layoutedNodes[i] EXCEPT !.position = nodes[i].position] = nodes[i]
              /\ layoutedNodes[i].position = AssignedPlace(nodes[i].id)
        /\ layoutedEdges = edges

\* three nodes, the result holds the second and the third only
C22_Witness ==
    /\ LayoutDone
    /\ layout.state = "done"
    /\ Len(nodes) = 3
    /\ Len(layout.children) = 2
    /\ layoutedNodes[1].position = [x |-> 0, y |-> 0]
    /\ layoutedNodes[3].position = [x |-> 280, y |-> 12]
    /\ layoutedEdges = edges

(***************************************************************************)
(* schemaToGraph (graphUtils.ts 59-99)                                     *)
(***************************************************************************)
RECURSIVE decimal(_)
\* `${idCounter}`
decimal(n) ==
    IF n < 10 THEN counterText(n) ELSE decimal(n \div 10) \o counterText(n % 10)

\* line 66: obj.type || 'object', as the template string of line 69 prints it
typeOf(obj) ==
    IF Truthy(Get(obj, "type")) THEN stringOf(Get(obj, "type")) ELSE "object"

\* lines 67-79
treeNode(id, obj, label) ==
    [id       |-> id,
     data     |-> [label |-> label \o " (" \o typeOf(obj) \o ")"],
     position |-> [x |-> 0, y |-> 0],
     style    |-> [border |-> "1px solid #777", padding |-> "10px",
                   borderRadius |-> "5px", background |-> "#333",
                   color |-> "#fff", width |-> 150]]

\* lines 81-86
treeEdge(parentId, id) ==
    [id       |-> "edge-" \o parentId \o "-" \o id,
     source   |-> parentId,
     target   |-> id,
     animated |-> TRUE]

\* line 93: obj.definitions || obj.$defs
defsOf(obj) ==
    IF Truthy(Get(obj, "definitions")) THEN Get(obj, "definitions")
    ELSE Get(obj, "$defs")

\* lines 88-95: the calls one node makes, in order, as (label, value) pairs
childrenOf(obj) ==
    IF Truthy(Get(obj, "properties"))
    THEN [i \in 1..Len(Entries(Get(obj, "properties"))) |->
            [label |-> Entries(Get(obj, "properties"))[i].k,
             v     |-> Entries(Get(obj, "properties"))[i].v]]
    ELSE IF Truthy(Get(obj, "items"))
    THEN <<[label |-> "items", v |-> Get(obj, "items")]>>
    ELSE IF Truthy(defsOf(obj))
    THEN [i \in 1..Len(Entries(defsOf(obj))) |->
            [label |-> "def: " \o Entries(defsOf(obj))[i].k,
             v     |-> Entries(defsOf(obj))[i].v]]
    ELSE <<>>

RECURSIVE schemaToGraphTraverse(_, _, _, _), schemaToGraphChildren(_, _, _)
\* lines 64-96: one call of the inner traverse; acc carries nodes, edges,
\* idCounter and whether a TypeError has been raised.  parentId "" is null.
schemaToGraphTraverse(acc, obj, parentId, label) ==
    IF acc.threw THEN acc
    ELSE IF ReadThrows(obj) THEN [acc EXCEPT !.threw = TRUE]
    ELSE LET id  == "node-" \o decimal(acc.idCounter)
             own == [nodes     |-> Append(acc.nodes, treeNode(id, obj, label)),
                     edges     |-> IF parentId # ""
                                   THEN Append(acc.edges, treeEdge(parentId, id))
                                   ELSE acc.edges,
                     idCounter |-> acc.idCounter + 1,
                     threw     |-> FALSE]
         IN schemaToGraphChildren(own, childrenOf(obj), id)

\* the forEach of lines 89 and 94
schemaToGraphChildren(acc, children, id) ==
    IF children = <<>> THEN acc
    ELSE schemaToGraphChildren(
             schemaToGraphTraverse(acc, Head(children).v, id, Head(children).label),
             Tail(children), id)

\* lines 59-62 and 97-98; nothing is returned when the call throws
schemaToGraph(doc) ==
    LET r == schemaToGraphTraverse(
                 [nodes |-> <<>>, edges |-> <<>>, idCounter |-> 0, threw |-> FALSE],
                 doc, "", "Root")
    IN IF r.threw THEN [nodes |-> <<>>, edges |-> <<>>, threw |-> TRUE]
       ELSE [nodes |-> r.nodes, edges |-> r.edges, threw |-> FALSE]

(***************************************************************************)
(* SpecTree: one call schemaToGraph(schema) on a document of the pool.     *)
(***************************************************************************)
TreeLeaves ==
    { JObj(<<>>), JObj(<<KV("type", JStr("string"))>>), JNull, JFalse }

TreeShapes(x, y) ==
    { JObj(<<KV("type", JStr("object")),
             KV("properties", JObj(<<KV("p", x), KV("q", y)>>))>>),
      JObj(<<KV("type", JStr("array")), KV("items", x)>>),
      JObj(<<KV("definitions", JObj(<<KV("A", x)>>))>>),
      JObj(<<KV("$defs", JObj(<<KV("B", x)>>))>>),
      JObj(<<KV("definitions", JObj(<<KV("A", x)>>)),
             KV("$defs", JObj(<<KV("B", y)>>))>>),
      JObj(<<KV("properties", JObj(<<KV("p", x)>>)), KV("items", y)>>),
      JObj(<<KV("items", x), KV("definitions", JObj(<<KV("A", y)>>))>>),
      JObj(<<KV("properties", JObj(<<>>)), KV("items", x)>>),
      JObj(<<KV("definitions", JObj(<<>>)), KV("$defs", JObj(<<KV("B", x)>>))>>) }

TreeWraps(d) ==
    { JObj(<<KV("properties", JObj(<<KV("w", d), KV("z", JObj(<<>>))>>))>>),
      JObj(<<KV("type", JStr("array")), KV("items", d)>>) }

\* eleven properties: the ids of the call reach two digits
WideDoc ==
    JObj(<<KV("properties",
              JObj([i \in 1..11 |-> KV("k" \o decimal(i - 1), JObj(<<>>))]))>>)

RECURSIVE TreeDocsAt(_)
TreeDocsAt(depth) ==
    IF depth = 0
    THEN TreeLeaves \cup {WideDoc}
            \cup UNION { TreeShapes(x, y) : x \in TreeLeaves, y \in TreeLeaves }
    ELSE TreeDocsAt(depth - 1) \cup UNION { TreeWraps(d) : d \in TreeDocsAt(depth - 1) }

TreeDocs == TreeDocsAt(MaxDepth)

InitTree ==
    /\ schema \in TreeDocs
    /\ schemaName = ""
    /\ refs = <<>>
    /\ threw = FALSE
    /\ NoGraph
    /\ pc = "call_tree"

SchemaToGraph ==
    /\ pc = "call_tree"
    /\ nodes' = schemaToGraph(schema).nodes
    /\ edges' = schemaToGraph(schema).edges
    /\ threw' = schemaToGraph(schema).threw
    /\ pc' = "tree_done"
    /\ UNCHANGED <<schema, schemaName, refs, schemasMap, allRelationships,
                   expandedNodes>>
    /\ UNCHANGED appVars

NextTree == SchemaToGraph

SpecTree == InitTree /\ [][NextTree]_vars

TreeDone == pc = "tree_done"

\* a node "with" a key: the key holds a value JavaScript counts as true
With(v, key) == ~ReadThrows(v) /\ Truthy(Get(v, key))

\* the type a label shows
ShownType(v) == IF With(v, "type") THEN Get(v, "type").s ELSE "object"

\* the children the rule gives to a document node, as (label, value) pairs
RuleChildren(v) ==
    IF With(v, "properties")
    THEN LET ps == Get(v, "properties").e
         IN [i \in 1..Len(ps) |-> [label |-> ps[i].k, v |-> ps[i].v]]
    ELSE IF With(v, "items")
    THEN <<[label |-> "items", v |-> Get(v, "items")]>>
    ELSE IF With(v, "definitions")
    THEN LET ds == Get(v, "definitions").e
         IN [i \in 1..Len(ds) |-> [label |-> "def: " \o ds[i].k, v |-> ds[i].v]]
    ELSE IF With(v, "$defs")
    THEN LET ds == Get(v, "$defs").e
         IN [i \in 1..Len(ds) |-> [label |-> "def: " \o ds[i].k, v |-> ds[i].v]]
    ELSE <<>>

RECURSIVE RuleTree(_, _, _), RuleForest(_, _)
\* the labelled tree the rule gives to a document, in pre-order: each entry
\* holds a node's label and its parent's label ("" for the root)
RuleTree(v, label, parent) ==
    LET own == label \o " (" \o ShownType(v) \o ")"
    IN <<[label |-> own, parent |-> parent]>> \o RuleForest(RuleChildren(v), own)
RuleForest(children, parent) ==
    IF children = <<>> THEN <<>>
    ELSE RuleTree(Head(children).v, Head(children).label, parent)
            \o RuleForest(Tail(children), parent)

\* the label of the node with the given id in the returned graph
LabelOfId(id) ==
    nodes[CHOOSE i \in 1..Len(nodes) : nodes[i].id = id].data.label

\* the label of the parent the returned edges give to node i ("" when no
\* edge points at it)
ParentLabel(i) ==
    IF \E e \in 1..Len(edges) : edges[e].target = nodes[i].id
    THEN LabelOfId(edges[CHOOSE e \in 1..Len(edges) :
                            edges[e].target = nodes[i].id].source)
    ELSE ""

(***************************************************************************)
(* C23: the graph schemaToGraph returns holds, in visiting order, the root *)
(* labelled "Root (type)" and under every node exactly the children of the *)
(* rule: one per property key, labelled "key (type)", when the node has    *)
(* `properties`; otherwise one labelled "items (type)" when it has         *)
(* `items`; otherwise one per entry of `definitions`, or of `$defs` when   *)
(* `definitions` is absent, labelled "def: key (type)"; otherwise none.    *)
(* The type shown is the node's `type`, "object" when it has none.  A      *)
(* node has a key when the key's value counts as true.                     *)
(***************************************************************************)
C23_ChildSelection ==
    TreeDone =>
        /\ ~threw
        /\ [i \in 1..Len(nodes) |->
              [label |-> nodes[i].data.label, parent |-> ParentLabel(i)]]
           = RuleTree(schema, "Root", "")

\* the relationships an edge stands for: those whose two ends resolve to the
\* edge's source and target
StandingFor(e) ==
    { r \in 1..Len(allRelationships) :
        /\ BothResolvable(allRelationships[r])
        /\ ResolvedId(allRelationships[r].from) = edges[e].source
        /\ ResolvedId(allRelationships[r].to) = edges[e].target }

(***************************************************************************)
(* C24: the count of every edge of createSchemaGraph is the number of      *)
(* relationships whose resolved (from, to) is the edge's (source, target): *)
(* relationships of other pairs are not counted, and relationships written *)
(* with different raw paths that resolve to the same pair all are.         *)
(***************************************************************************)
C24_CountOfResolvedPair ==
    GraphDone =>
        \A e \in 1..Len(edges) : edges[e].count = Cardinality(StandingFor(e))

(***************************************************************************)
(* SpecArray: one call extractSchemaReferences(schema, schemaName) on a    *)
(* document with array nodes; the $ref strings of one document differ.     *)
(***************************************************************************)
ArrayRefs == { "a.json", "./a.json", "../a.json", "x/a.json", "a.json#/definitions/X" }

\* a $ref holder that has a second holder under properties.q
HolderWithNested(ref, inner) ==
    JObj(<<KV("$ref", JStr(ref)), KV("properties", JObj(<<KV("q", Holder(inner))>>))>>)

ArrayShapes(ref) ==
    { ArrayOf(Holder(ref)),
      NestedInItems(ref),
      ArrayOf(HolderWithNested(ref, "b.json")),
      ArrayOf(ArrayOf(Holder(ref))),
      ArrayOf(Properties(<<KV("list", ArrayOf(Holder(ref))), KV("p", Holder("b.json"))>>)),
      TupleItems(ref),
      ArrayOf(JObj(<<KV("allOf", JArr(<<Holder(ref)>>))>>)),
      ItemsWithoutType(ref),
      JObj(<<KV("type", JStr("array")), KV("items", Holder(ref)),
             KV("properties", JObj(<<KV("p", Holder("b.json"))>>))>>) }

ArrayDocs ==
    { WrapTimes(d, n) : d \in UNION { ArrayShapes(ref) : ref \in ArrayRefs },
                        n \in 0..MaxDepth }

InitArray ==
    /\ schema \in ArrayDocs
    /\ schemaName \in ExtractPaths
    /\ refs = <<>>
    /\ threw = FALSE
    /\ NoGraph
    /\ pc = "call_extract"

NextArray == ExtractOne

SpecArray == InitArray /\ [][NextArray]_vars

\* the $ref strings held by objects that are themselves the `items` value
\* of a node whose type is "array"
ItemsOfArrayRefs(doc) ==
    { Get(Get(y.n, "items"), "$ref").s :
        y \in { z \in NodesOf(doc, "") :
                  /\ z.n.t = "obj"
                  /\ Get(z.n, "type") = JStr("array")
                  /\ Get(z.n, "items").t = "obj"
                  /\ Get(Get(z.n, "items"), "$ref").t = "str" } }

(***************************************************************************)
(* C25: a reference is extracted as "one-to-many" iff the object holding   *)
(* its $ref is itself the `items` value of a node whose type is "array",   *)
(* as "one-to-one" otherwise: a $ref deeper inside the items schema        *)
(* (items.properties.p.$ref, an element of a tuple, a property of the      *)
(* items holder) is one-to-one, also next to a one-to-many reference of    *)
(* the same array.                                                         *)
(***************************************************************************)
C25_ArrayFlagOneLevel ==
    Extracted =>
        /\ \A i \in 1..Len(refs) :
              /\ refs[i].type \in {"one-to-many", "one-to-one"}
              /\ refs[i].type = "one-to-many" <=> refs[i].refPath \in ItemsOfArrayRefs(schema)
        /\ \A ref \in ArrayRefs : \A n \in 0..MaxDepth :
              /\ schema = WrapTimes(NestedInItems(ref), n)
                    => /\ Len(refs) = 1
                       /\ refs[1].refPath = ref
                       /\ refs[1].type = "one-to-one"
              /\ schema = WrapTimes(ArrayOf(HolderWithNested(ref, "b.json")), n)
                    => /\ Len(refs) = 2
                       /\ refs[1].refPath = ref /\ refs[1].type = "one-to-many"
                       /\ refs[2].refPath = "b.json" /\ refs[2].type = "one-to-one"
              /\ schema = WrapTimes(ArrayOf(ArrayOf(Holder(ref))), n)
                    => /\ Len(refs) = 1
                       /\ refs[1].type = "one-to-many"

\* the items holder is one-to-many, the holder under its properties is not
C25_Witness ==
    /\ Extracted
    /\ schema = ArrayOf(HolderWithNested("./a.json", "b.json"))
    /\ Len(refs) = 2
    /\ refs[1].type = "one-to-many"
    /\ refs[2].type = "one-to-one"

RECURSIVE Numeral(_)
\* a natural number in decimal digits
Numeral(n) ==
    IF n < 10 THEN SubSeq("0123456789", n + 1, n + 1)
    ELSE Numeral(n \div 10) \o SubSeq("0123456789", (n % 10) + 1, (n % 10) + 1)

RECURSIVE RuleParents(_, _, _), RuleParentsForest(_, _, _)
\* the document nodes numbered from 0 in depth-first pre-order: the number
\* of each node's parent, in that order (-1 for the root)
RuleParents(v, own, parent) ==
    <<parent>> \o RuleParentsForest(RuleChildren(v), own, own + 1)
RuleParentsForest(children, parent, next) ==
    IF children = <<>> THEN <<>>
    ELSE LET first == RuleParents(Head(children).v, next, parent)
         IN first \o RuleParentsForest(Tail(children), parent, next + Len(first))

IncomingEdges(i) == { e \in 1..Len(edges) : edges[e].target = nodes[i].id }

(***************************************************************************)
(* C26: the graph schemaToGraph returns is a tree: with n nodes, the ids   *)
(* are node-0 .. node-(n-1) in visiting order, which is the depth-first    *)
(* pre-order of the document; no edge points at the root; every other node *)
(* is the target of exactly one edge, and its source is the node's parent; *)
(* so there are n - 1 edges.  This holds of every document: no call ends   *)
(* in an error.                                                            *)
(***************************************************************************)
C26_ReturnsATree ==
    TreeDone =>
        LET parents == RuleParents(schema, 0, 0 - 1)
        IN /\ ~threw
           /\ Len(nodes) = Len(parents)
           /\ \A i \in 1..Len(nodes) : nodes[i].id = "node-" \o Numeral(i - 1)
           /\ IncomingEdges(1) = {}
           /\ \A i \in 2..Len(nodes) :
                 /\ Cardinality(IncomingEdges(i)) = 1
                 /\ \A e \in IncomingEdges(i) :
                       edges[e].source = "node-" \o Numeral(parents[i])
           /\ Len(edges) = Len(nodes) - 1

(***************************************************************************)
(* C27: in the output of createSchemaGraph the target node of every edge   *)
(* has isRoot = FALSE, also when the target was found by suffix matching.  *)
(***************************************************************************)
C27_EdgeTargetsAreNotRoots ==
    GraphDone =>
        \A e \in 1..Len(edges) : ~NodeOf(edges[e].target).isRoot

\* the collection was emptied by Clear All and nothing was added since: the
\* collection is empty while the graph of the last rebuild is not (a rebuild
\* of an empty collection leaves an empty graph)
ClearedAll == schemasMap = <<>> /\ nodes # <<>>

(***************************************************************************)
(* C28: after Clear All the displayed nodes and edges stay empty until a   *)
(* later operation adds a document; a layout still in flight from a        *)
(* rebuild requested before the clear does not repopulate them when it     *)
(* resolves.                                                               *)
(***************************************************************************)
C28_ClearedStaysEmpty ==
    ClearedAll => (layoutedNodes = <<>> /\ layoutedEdges = <<>>)

(***************************************************************************)
(* SpecEdit: edit events of the multi-file editor on a loaded collection   *)
(* of two documents whose graph is on display, the timer of debounce, and  *)
(* the layouts of the rebuilds.                                            *)
(***************************************************************************)
EditCollections ==
    { <<Entry("a.json", d1), Entry("v1/b.json", d2)>> : d1 \in AppDocs, d2 \in AppDocs }
        \cup { <<Entry("v1/b.json", d2), Entry("a.json", d1)>> : d1 \in AppDocs, d2 \in AppDocs }

InitEdit ==
    /\ NoExtract
    /\ schemasMap \in EditCollections
    /\ allRelationships = extractAll(schemasMap).refs
    /\ expandedNodes = {}
    /\ nodes = createSchemaGraph(schemasMap, allRelationships, expandedNodes).nodes
    /\ edges = createSchemaGraph(schemasMap, allRelationships, expandedNodes).edges
    /\ threw = FALSE
    /\ inFlight = <<>>
    /\ layout = ElkPlaced(nodeIdsOf(schemasMap))
    /\ layoutedNodes = layoutGraph(nodes, edges, layout).nodes
    /\ layoutedEdges = layoutGraph(nodes, edges, layout).edges
    /\ drops = <<>>
    /\ ops = 0
    /\ timeoutId = <<>>
    /\ editedContent = <<>>
    /\ copiedPath = ""
    /\ pc = "idle"

NextEdit ==
    \/ handleEditorChange
    \/ handleMultiSchemaChange
    \/ LayoutResolve

SpecEdit == InitEdit /\ [][NextEdit]_vars

\* no call of the debounced handler is pending
NoTimer == timeoutId = <<>>

(***************************************************************************)
(* C29: every edit event (path, content) whose content is valid JSON is    *)
(* applied to the collection at that path, unless a later edit of the same *)
(* path supersedes it; an edit of another path inside the debounce window  *)
(* does not cancel it.  So, once no debounced call is pending, every path  *)
(* whose last edit is valid JSON holds that edit's document.               *)
(***************************************************************************)
C29_EditsApplied ==
    NoTimer =>
        \A i \in 1..Len(editedContent) :
            editedContent[i].schema.ok =>
                /\ mapHas(schemasMap, editedContent[i].name)
                /\ mapGet(schemasMap, editedContent[i].name) = editedContent[i].schema.parsed

(***************************************************************************)
(* SpecCopy: calls of handleCopyFile on a loaded collection whose graph is *)
(* on display, and the layouts of the rebuilds.                            *)
(***************************************************************************)
CopyPaths ==
    { "a.json", "a-copy.schema.json", "a-copy-1.schema.json",
      "v1/b.schema.json", "v1/b-copy.schema.json" }

\* `false` is a document JSON.parse returns for the file text "false"
CopyDocs == { JObj(<<>>), PlainProperty("p", "a.json"), JFalse }

CopyCollections ==
    { [i \in 1..Len(q) |-> Entry(q[i], IF i = 1 THEN d ELSE JObj(<<>>))] :
        q \in DistinctSeqsUpTo(CopyPaths, MaxDocs), d \in CopyDocs }

InitCopy ==
    /\ NoExtract
    /\ schemasMap \in CopyCollections
    /\ allRelationships = extractAll(schemasMap).refs
    /\ expandedNodes = {}
    /\ nodes = createSchemaGraph(schemasMap, allRelationships, expandedNodes).nodes
    /\ edges = createSchemaGraph(schemasMap, allRelationships, expandedNodes).edges
    /\ threw = FALSE
    /\ inFlight = <<>>
    /\ layout = ElkPlaced(nodeIdsOf(schemasMap))
    /\ layoutedNodes = layoutGraph(nodes, edges, layout).nodes
    /\ layoutedEdges = layoutGraph(nodes, edges, layout).edges
    /\ drops = <<>>
    /\ ops = 0
    /\ timeoutId = <<>>
    /\ editedContent = <<>>
    /\ copiedPath = ""
    /\ pc = "idle"

NextCopy ==
    \/ handleCopyFile
    \/ LayoutResolve

SpecCopy == InitCopy /\ [][NextCopy]_vars

\* the file name of a path: the text after its last '/'
FileName(p) == IF HasChar(p, "/") THEN SubSeq(p, LastPos(p, "/") + 1, Len(p)) ELSE p

\* a file name without its trailing ".schema.json" or ".json"
BaseOf(name) ==
    IF HasSuffix(name, ".schema.json") THEN SubSeq(name, 1, Len(name) - 12)
    ELSE IF HasSuffix(name, ".json") THEN SubSeq(name, 1, Len(name) - 5)
    ELSE name

\* the k-th name tried for a copy: <base>-copy.schema.json for k = 0, then
\* <base>-copy-<k>.schema.json
CopyName(p, k) ==
    (IF Directory(p) = "" THEN "" ELSE Directory(p) \o "/")
        \o BaseOf(FileName(p))
        \o (IF k = 0 THEN "-copy" ELSE "-copy-" \o Numeral(k)) \o ".schema.json"

\* a step that is a call of handleCopyFile
CopyCall == ops' = ops + 1

\* the step adds, after the untouched earlier entries, one entry that holds
\* the document of path p under the first copy name that was not a key
AddsCopyOf(p) ==
    /\ Len(schemasMap') = Len(schemasMap) + 1
    /\ \A i \in 1..Len(schemasMap) : schemasMap'[i] = schemasMap[i]
    /\ schemasMap'[Len(schemasMap')].name \notin LoadedIds
    /\ \E k \in 0..Len(schemasMap) :
          /\ schemasMap'[Len(schemasMap')].name = CopyName(p, k)
          /\ \A j \in 0..(k - 1) : CopyName(p, j) \in LoadedIds
    /\ schemasMap'[Len(schemasMap')].schema = mapGet(schemasMap, p)

(***************************************************************************)
(* C30: handleCopyFile on a path of the collection adds exactly one entry, *)
(* in the same directory, under the first of '<base>-copy.schema.json',    *)
(* '<base>-copy-1.schema.json', '<base>-copy-2.schema.json', ... that is   *)
(* not a key of the collection; every earlier entry is unchanged and the   *)
(* new entry holds a copy of the source document.  On a path that is not   *)
(* in the collection the call changes nothing.                             *)
(***************************************************************************)
C30_CopyNeverOverwrites ==
    [][ CopyCall =>
          IF copiedPath' \in LoadedIds
          THEN AddsCopyOf(copiedPath')
          ELSE UNCHANGED <<schemasMap, allRelationships, nodes, edges, inFlight,
                           layoutedNodes, layoutedEdges>> ]_vars

====
